---- MODULE Spec2Model ----
(***************************************************************************)
(* Accessibility-audit backend: breadth-first crawler, risk scoring and    *)
(* severity mapping of scan results, and the persistence of the            *)
(* website / page / violation hierarchy in SQLite.                         *)
(*                                                                         *)
(* Twelve specifications share the variables below:                        *)
(*   SpecCrawl / FairSpecCrawl  SiteCrawler.crawl        (crawler.js)      *)
(*   SpecRisk                   calculateRiskScore       (part_002)        *)
(*   SpecEnhance                enhanceResults           (axeScanner.js)   *)
(*   Spec                       storePageResults, storeScanResults and the *)
(*                              readers of the store (part_001, part_000,  *)
(*                              searchEngine.js)                           *)
(*   SpecSuggest                generateFixSuggestions   (part_002)        *)
(*   SpecIndex                  AIIndexer.indexWebsite   (part_001)        *)
(*   SpecCosine                 cosineSimilarity, compressEmbedding        *)
(*   SpecSearch                 SearchEngine.semanticSearch                *)
(*   SpecBatch                  enhanceResults, batch by batch             *)
(*   SpecCount                  the external calls of an indexWebsite run  *)
(*   SpecLinks                  the link filter of crawl (crawler.js)      *)
(*   SpecBrowser                getBrowserInstance       (axeScanner.js)   *)
(* Each specification moves its own variables and leaves the others at     *)
(* their initial values.                                                   *)
(***************************************************************************)
EXTENDS Integers, Sequences, FiniteSets, TLC

\* ------------------------------------------------------------------ bounds
\* Most links one fetched page returns.
MaxLinks == 2
\* Largest maxDepth handed to crawl (the code's default is 2).
MaxDepthBound == 2
\* Longest violation list handed to calculateRiskScore.
MaxRiskLen == 4
\* Longest violation list in one scan result handed to enhanceResults.
MaxScanLen == 2
\* Longest violation list of a scan result handed to the store.
MaxViolations == 3
\* Most store calls (storePageResults, storeScanResults) in one run.
MaxCalls == 2
\* Longest html of a violation's first node, in characters.
MaxHtmlLen == 2
\* Most generateFixSuggestions calls in one run.
MaxSuggestCalls == 2
\* Most pages a crawl hands to indexWebsite.
MaxPages == 6
\* Largest small component of an embedding, in units of 1/381 (a third of a
\* quantization step of 1/127).
MaxSmallComponent == 4
\* Most violation rows with an embedding that semanticSearch loads.
MaxRows == 3
\* Largest limit handed to semanticSearch.
MaxLimit == 2
\* Most violations of the scan result whose enhancement is followed step by
\* step: one full batch and part of a second.
MaxBatchViolations == 7
\* Most pages of a run whose external calls are counted: one full batch and
\* two pages of a second.
MaxCountedPages == 7

\* Most scanPage calls that ask for a browser at about the same time.
MaxScanCalls == 3

VARIABLES
  \* SiteCrawler (crawler.js)
  crawlPc,      \* "idle" | "loop" | "done": position of crawl()
  maxDepth,     \* crawl's maxDepth argument
  queue,        \* crawl's FIFO queue of [url, depth]
  visited,      \* this.visited
  pages,        \* crawl's result list (urls; the title is carried along unread)
  fetchCount,   \* history: how often each url was handed to page.goto
  pushed,       \* history: the entries pushed by links.forEach
  failed,       \* history: urls whose fetch threw
  crawled,      \* the console log `Crawled: url (Depth d)`, as [url, depth]
  \* getBrowserInstance and closeBrowser (axeScanner.js:8-38, 289-296)
  browserInstances, \* the registry entry of one browser type: a browser or none
  scanCalls,        \* each scanPage call: where its getBrowserInstance stands
  browsers,         \* the browsers launched: which are live, how many so far
  \* links.forEach of one fetched page (crawler.js:45-54)
  linkCall,     \* the links handed to it, the page's depth, what it pushed
  \* calculateRiskScore (part_002)
  violations,   \* the list handed to calculateRiskScore (severities)
  riskScore,    \* its result
  \* enhanceResults (axeScanner.js)
  scanResults,  \* results.violations as returned by scanPage
  enhanced,     \* what enhanceResults returned, or that it threw
  \* the store (part_002 schema, part_001, part_000, searchEngine.js)
  file,         \* the committed content of complyai-search.db
  conn,         \* the shared connection: its open transaction, if any
  scan,         \* the content seen by storeScanResults' own connection
  call,         \* the store call in flight: arguments and position
  observed,     \* what a search run during the call returned for its url
  storedOk,     \* history: urls whose store call resolved
  nCalls,       \* history: store calls made
  \* the suggestion cache (part_002:243-351)
  RESPONSE_CACHE, \* the Map: cache key -> stored result
  pendingCalls, \* generateFixSuggestions calls waiting for the provider
  generated,    \* history: the latest suggestion generated for each violation key
  lastCall,     \* history: how the latest generateFixSuggestions call began
  returned,     \* the value the latest finished call returned
  nSuggest,     \* history: generateFixSuggestions calls made
  \* AIIndexer.indexWebsite (part_001:15-73, 240-249)
  indexRun,     \* the run: position, pages, totalScore, indexedPages, result
  indexDb,      \* the indexer's connection, the Website row of the domain and
                \* the risk scores of the Pages the row owns
  \* SearchEngine.cosineSimilarity, AIIndexer.compressEmbedding
  cosCall,      \* the latest cosineSimilarity call: arguments and result
  \* SearchEngine.semanticSearch (searchEngine.js:117-170)
  embeddedRows, \* the embedding column of the rows its SELECT loads
  search,       \* the latest semanticSearch call: arguments and result
  \* enhanceResults, batch by batch (axeScanner.js:234-264)
  enhanceRun,   \* the call: position, batch start, state of each generation
  \* the external calls of one indexWebsite run (part_001:35-55)
  callCount     \* the run: batch start, each page's step and outstanding calls

crawlVars ==
  <<crawlPc, maxDepth, queue, visited, pages, fetchCount, pushed, failed, crawled>>
riskVars == <<violations, riskScore>>
enhanceVars == <<scanResults, enhanced>>
storeVars == <<file, conn, scan, call, observed, storedOk, nCalls>>
suggestVars == <<RESPONSE_CACHE, pendingCalls, generated, lastCall, returned, nSuggest>>
indexVars == <<indexRun, indexDb>>
cosineVars == <<cosCall>>
searchVars == <<embeddedRows, search>>
batchVars == <<enhanceRun>>
countVars == <<callCount>>
linkVars == <<linkCall>>
browserVars == <<browserInstances, scanCalls, browsers>>
vars ==
  <<crawlVars, riskVars, enhanceVars, storeVars, suggestVars, indexVars, cosineVars,
    searchVars, batchVars, countVars, linkVars, browserVars>>

\* What the actions of one component leave alone.
othersOfCrawl ==
  <<riskVars, enhanceVars, storeVars, suggestVars, indexVars, cosineVars, searchVars,
    batchVars, countVars, linkVars,
    browserVars>>
othersOfRisk ==
  <<crawlVars, enhanceVars, storeVars, suggestVars, indexVars, cosineVars, searchVars,
    batchVars, countVars, linkVars,
    browserVars>>
othersOfEnhance ==
  <<crawlVars, riskVars, storeVars, suggestVars, indexVars, cosineVars, searchVars,
    batchVars, countVars, linkVars,
    browserVars>>
othersOfStore ==
  <<crawlVars, riskVars, enhanceVars, suggestVars, indexVars, cosineVars, searchVars,
    batchVars, countVars, linkVars,
    browserVars>>
othersOfSuggest ==
  <<crawlVars, riskVars, enhanceVars, storeVars, indexVars, cosineVars, searchVars,
    batchVars, countVars, linkVars,
    browserVars>>
othersOfIndex ==
  <<crawlVars, riskVars, enhanceVars, storeVars, suggestVars, cosineVars, searchVars,
    batchVars, countVars, linkVars,
    browserVars>>
othersOfCosine ==
  <<crawlVars, riskVars, enhanceVars, storeVars, suggestVars, indexVars, searchVars,
    batchVars, countVars, linkVars,
    browserVars>>
othersOfSearch ==
  <<crawlVars, riskVars, enhanceVars, storeVars, suggestVars, indexVars, cosineVars,
    batchVars, countVars, linkVars,
    browserVars>>
othersOfBatch ==
  <<crawlVars, riskVars, enhanceVars, storeVars, suggestVars, indexVars, cosineVars,
    searchVars, countVars, linkVars,
    browserVars>>
othersOfCount ==
  <<crawlVars, riskVars, enhanceVars, storeVars, suggestVars, indexVars, cosineVars,
    searchVars, batchVars, linkVars,
    browserVars>>
othersOfLinks ==
  <<crawlVars, riskVars, enhanceVars, storeVars, suggestVars, indexVars, cosineVars,
    searchVars, batchVars, countVars,
    browserVars>>
othersOfBrowser ==
  <<crawlVars, riskVars, enhanceVars, storeVars, suggestVars, indexVars, cosineVars,
    searchVars, batchVars, countVars, linkVars>>

\* ------------------------------------------------------------- helpers
SeqsUpTo(S, n) == UNION {[1..k -> S] : k \in 0..n}

Min(a, b) == IF a <= b THEN a ELSE b

Max(a, b) == IF a >= b THEN a ELSE b

Range(s) == {s[i] : i \in DOMAIN s}

\* ==================================================================
\* SiteCrawler.crawl                                  src/services/crawler.js
\* ==================================================================
\* The URL universe of a crawl: the start URL, two more pages of the same
\* host (one a query-string variant), a page of another host, and a string
\* that passes href.startsWith('http') but that new URL() rejects.
StartUrl == "http://a/"
SiteUrls == {"http://a/", "http://a/p", "http://a/p?x=1"}
OffSiteUrl == "http://b/"
MalformedUrl == "http://"
LinkUniverse == SiteUrls \cup {OffSiteUrl, MalformedUrl}

\* A link to the start host whose scheme is neither http nor https: it
\* passes href.startsWith('http') too.                 (crawler.js:38)
OtherSchemeUrl == "httpx://a/q"

\* new URL(link): throws on a malformed link.
UrlParses(link) == link # MalformedUrl

\* The scheme of a link is http: or https:.
IsHttp(link) == link # OtherSchemeUrl

\* new URL(link).hostname
hostname(link) == IF link \in SiteUrls \cup {OtherSchemeUrl} THEN "a" ELSE "b"

\* const domain = new URL(baseUrl).hostname            (crawler.js:19)
domain == hostname(StartUrl)

\* What page.evaluate can return for one page: any list of links that start
\* with 'http' (crawler.js:35-39).
LinkLists == SeqsUpTo(LinkUniverse, MaxLinks)

\* if (depth > maxDepth || this.visited.has(url)) continue;   (crawler.js:26)
Skip_noVisited(entry) == entry.depth > maxDepth
Skip_offByOne(entry) == entry.depth > maxDepth + 1 \/ entry.url \in visited
Skip(entry) == entry.depth > maxDepth \/ entry.url \in visited

\* queue.shift(): what is left of the queue.           (crawler.js:24)
Shift_peek(q) == q
Shift(q) == Tail(q)

\* this.visited.add(url)                               (crawler.js:27)
Visit_forgets(seen, url) == seen
Visit(seen, url) == seen \cup {url}

\* queue.push(entry) for each entry found, in order    (crawler.js:49)
Push_front(q, found) == found \o q
Push(q, found) == q \o found

\* links.forEach(link => { try { new URL(link); if (hostname === domain)
\* queue.push({url: link, depth: depth + 1}) } catch {} })  (crawler.js:45-54)
RECURSIVE Internal(_, _)
Internal(hrefs, depth) ==
  IF hrefs = <<>> THEN <<>>
  ELSE LET link == Head(hrefs)
           rest == Internal(Tail(hrefs), depth)
       IN IF UrlParses(link) /\ hostname(link) = domain
          THEN <<[url |-> link, depth |-> depth + 1]>> \o rest
          ELSE rest

\* crawl(baseUrl, maxDepth): the statements before the loop (crawler.js:18-21).
\* indexWebsite builds one SiteCrawler per run, so crawl runs once an instance.
crawl(depthArg) ==
  /\ crawlPc = "idle"
  /\ crawlPc' = "loop"
  /\ maxDepth' = depthArg
  /\ queue' = <<[url |-> StartUrl, depth |-> 0]>>
  /\ pages' = <<>>
  /\ UNCHANGED <<visited, fetchCount, pushed, failed, crawled>>
  /\ UNCHANGED othersOfCrawl

\* One iteration that hits `continue` (crawler.js:24-26).
CrawlSkip ==
  /\ crawlPc = "loop"
  /\ queue # <<>>
  /\ Skip(Head(queue))
  /\ queue' = Shift(queue)
  /\ UNCHANGED <<crawlPc, maxDepth, visited, pages, fetchCount, pushed, failed, crawled>>
  /\ UNCHANGED othersOfCrawl

\* One iteration whose fetch succeeds (crawler.js:24-56): the url is marked
\* visited, fetched, recorded, and its internal links are pushed.
CrawlFetch(hrefs) ==
  /\ crawlPc = "loop"
  /\ queue # <<>>
  /\ ~Skip(Head(queue))
  /\ LET entry == Head(queue)
         found == Internal(hrefs, entry.depth)
     IN /\ visited' = Visit(visited, entry.url)
        /\ fetchCount' = [fetchCount EXCEPT ![entry.url] = @ + 1]
        /\ pages' = Append(pages, entry.url)
        /\ crawled' = Append(crawled, [url |-> entry.url, depth |-> entry.depth])
        /\ queue' = Push(Shift(queue), found)
        /\ pushed' = pushed \cup Range(found)
  /\ UNCHANGED <<crawlPc, maxDepth, failed>>
  /\ UNCHANGED othersOfCrawl

\* One iteration whose fetch throws before pages.push (newPage, goto, title
\* or evaluate rejects; crawler.js:29-39, 57-59): logged, nothing recorded.
CrawlFetchFails ==
  /\ crawlPc = "loop"
  /\ queue # <<>>
  /\ ~Skip(Head(queue))
  /\ LET entry == Head(queue)
     IN /\ visited' = Visit(visited, entry.url)
        /\ fetchCount' = [fetchCount EXCEPT ![entry.url] = @ + 1]
        /\ failed' = failed \cup {entry.url}
        /\ queue' = Shift(queue)
  /\ UNCHANGED <<crawlPc, maxDepth, pages, pushed, crawled>>
  /\ UNCHANGED othersOfCrawl

\* while (queue.length > 0) is false: return pages (crawler.js:23, 62).
CrawlReturn ==
  /\ crawlPc = "loop"
  /\ queue = <<>>
  /\ crawlPc' = "done"
  /\ UNCHANGED <<maxDepth, queue, visited, pages, fetchCount, pushed, failed, crawled>>
  /\ UNCHANGED othersOfCrawl

CrawlLoop ==
  \/ CrawlSkip
  \/ \E hrefs \in LinkLists : CrawlFetch(hrefs)
  \/ CrawlFetchFails
  \/ CrawlReturn

\* The links of one fetched page are handed to links.forEach
\* (crawler.js:45-54): page.evaluate can return any list of strings that
\* start with 'http', a link of another scheme included.
HrefLists == SeqsUpTo(LinkUniverse \cup {OtherSchemeUrl}, MaxLinks)

forEachLink ==
  /\ ~linkCall.called
  /\ \E hrefs \in HrefLists, depth \in 0..MaxDepthBound :
       linkCall' = [called |-> TRUE, hrefs |-> hrefs, depth |-> depth,
                    found |-> Internal(hrefs, depth)]
  /\ UNCHANGED othersOfLinks

InitLinkVars ==
  linkCall = [called |-> FALSE, hrefs |-> <<>>, depth |-> 0, found |-> <<>>]

\* ==================================================================
\* getBrowserInstance, closeBrowser       src/scanner/axeScanner.js:8-38,
\*                                                               289-296
\* ==================================================================
\* No browser: browserInstances[browserType] is undefined.
NoBrowser == 0

\* !browserInstances[browserType] || !browserInstances[browserType].isConnected()
\*                                                    (axeScanner.js:14)
MustLaunch == browserInstances = NoBrowser \/ browserInstances \notin browsers.live

Launching == {c \in DOMAIN scanCalls : scanCalls[c].pc = "launching"}

\* scanPage calls getBrowserInstance (axeScanner.js:152, 11-14) and the
\* registry holds a connected browser: it is returned (axeScanner.js:37).
getBrowserInstance_reuse(c) ==
  /\ browsers.pc = "running"
  /\ c \in DOMAIN scanCalls
  /\ scanCalls[c].pc = "idle"
  /\ ~MustLaunch
  /\ scanCalls' = [scanCalls EXCEPT ![c] = [pc |-> "has", browser |-> browserInstances]]
  /\ UNCHANGED <<browserInstances, browsers>>
  /\ UNCHANGED othersOfBrowser

\* The registry holds no connected browser: browser.launch is called and the
\* call waits for it (axeScanner.js:14-23).
getBrowserInstance_launch(c) ==
  /\ browsers.pc = "running"
  /\ c \in DOMAIN scanCalls
  /\ scanCalls[c].pc = "idle"
  /\ MustLaunch
  /\ scanCalls' = [scanCalls EXCEPT ![c].pc = "launching"]
  /\ browsers' = [browsers EXCEPT !.overlapped = @ \/ Launching # {}]
  /\ UNCHANGED browserInstances
  /\ UNCHANGED othersOfBrowser

\* browser.launch resolves: the new browser is written to the registry and
\* returned (axeScanner.js:23, 37).
Launch_resolves(c) ==
  /\ browsers.pc = "running"
  /\ c \in Launching
  /\ LET b == browsers.launched + 1
     IN /\ browsers' = [browsers EXCEPT !.launched = b, !.live = @ \cup {b}]
        /\ browserInstances' = b
        /\ scanCalls' = [scanCalls EXCEPT ![c] = [pc |-> "has", browser |-> b]]
  /\ UNCHANGED othersOfBrowser

\* browser.launch rejects: getBrowserInstance and scanPage throw.
Launch_rejects(c) ==
  /\ browsers.pc = "running"
  /\ c \in Launching
  /\ scanCalls' = [scanCalls EXCEPT ![c].pc = "failed"]
  /\ UNCHANGED <<browserInstances, browsers>>
  /\ UNCHANGED othersOfBrowser

\* A browser process dies: isConnected() is false from now on.
Browser_disconnects(b) ==
  /\ b \in browsers.live
  /\ browsers.pc = "running"
  /\ browsers' = [browsers EXCEPT !.live = @ \ {b}]
  /\ UNCHANGED <<browserInstances, scanCalls>>
  /\ UNCHANGED othersOfBrowser

\* SIGTERM or SIGINT: closeBrowser closes the browser of the registry when
\* it is connected, empties the registry, and the process exits
\* (axeScanner.js:289-306).
closeBrowser ==
  /\ browsers.pc = "running"
  /\ browsers' = [browsers EXCEPT !.pc = "exited", !.live = @ \ {browserInstances}]
  /\ browserInstances' = NoBrowser
  /\ UNCHANGED scanCalls
  /\ UNCHANGED othersOfBrowser

InitBrowserVars ==
  /\ browserInstances = NoBrowser
  /\ scanCalls = [c \in 1..MaxScanCalls |-> [pc |-> "idle", browser |-> NoBrowser]]
  /\ browsers = [pc |-> "running", live |-> {}, launched |-> 0, overlapped |-> FALSE]

InitCrawlVars ==
  /\ crawlPc = "idle"
  /\ maxDepth = 0
  /\ queue = <<>>
  /\ visited = {}
  /\ pages = <<>>
  /\ fetchCount = [u \in SiteUrls |-> 0]
  /\ pushed = {}
  /\ failed = {}
  /\ crawled = <<>>

\* ==================================================================
\* calculateRiskScore                           src/unnamed/part_002:353-371
\* ==================================================================
Severities == {"critical", "high", "medium", "low", "unknown"}

\* SEVERITY_WEIGHTS[violation.severity] || 1          (part_002:354-363)
SeverityWeight_swapped(severity) ==
  CASE severity = "critical" -> 10
    [] severity = "high" -> 3
    [] severity = "medium" -> 6
    [] severity = "low" -> 1
    [] OTHER -> 1
SeverityWeight(severity) ==
  CASE severity = "critical" -> 10
    [] severity = "high" -> 6
    [] severity = "medium" -> 3
    [] severity = "low" -> 1
    [] OTHER -> 1

\* violations.reduce((total, v) => total + weight(v), 0)  (part_002:362-364)
RECURSIVE RawScore(_)
RawScore(vs) ==
  IF vs = <<>> THEN 0 ELSE SeverityWeight(Head(vs)) + RawScore(Tail(vs))

\* Math.round((rawScore / maxPossibleScore) * 100) in IEEE-754 doubles
\* (part_002:369).  The quotient is rounded to a double before it is
\* multiplied by 100, so a value that is exactly k + 1/2 in the rationals can
\* come out just below it and round down.  For lists of up to 9 violations
\* (maxPossibleScore <= 90) that happens for exactly these
\* <<rawScore, maxPossibleScore>>: 23/40 and 46/80 give 57.49999999999999.
\* Everywhere else (no tie, or a tie the doubles keep) Math.round is
\* floor(x + 1/2).
DoubleFallsBelowHalf == {<<23, 40>>, <<46, 80>>}

RoundedPercent(raw, maxPossible) ==
  LET halfUp == (2 * 100 * raw + maxPossible) \div (2 * maxPossible)
  IN IF <<raw, maxPossible>> \in DoubleFallsBelowHalf THEN halfUp - 1 ELSE halfUp

\* calculateRiskScore(violations)                      (part_002:353-371)
calculateRiskScore(vs) ==
  LET rawScore == RawScore(vs)
      maxPossibleScore == Len(vs) * SeverityWeight("critical")
  IN IF maxPossibleScore > 0
     THEN Min(RoundedPercent(rawScore, maxPossibleScore), 100)
     ELSE 0

\* A caller hands calculateRiskScore a list one violation longer.
AddViolation(severity) ==
  /\ Len(violations) < MaxRiskLen
  /\ violations' = Append(violations, severity)
  /\ riskScore' = calculateRiskScore(violations')
  /\ UNCHANGED othersOfRisk

InitRiskVars ==
  /\ violations = <<>>
  /\ riskScore = calculateRiskScore(<<>>)

\* ==================================================================
\* enhanceResults                           src/scanner/axeScanner.js:226-287
\* ==================================================================
\* violation.impact as the rule engine reports it; "none" stands for a
\* missing impact (null / undefined), "other" for any other string.
Impacts == {"critical", "serious", "moderate", "minor", "cosmetic", "other", "none"}

\* One raw violation: its impact and how many nodes it lists.
RawViolations == [impact : Impacts, nodes : 0..1]

\* SEVERITY_MAPPING and the order of Object.keys over it (axeScanner.js:227-232)
SEVERITY_MAPPING_seriousIsHigh ==
  [critical |-> {"critical"}, high |-> {"serious", "moderate"},
   medium |-> {"minor"}, low |-> {"cosmetic"}]
SEVERITY_MAPPING ==
  [critical |-> {"serious", "critical"}, high |-> {"moderate"},
   medium |-> {"minor"}, low |-> {"cosmetic"}]
SeverityLevels == <<"critical", "high", "medium", "low">>

\* Object.keys(SEVERITY_MAPPING).find(level =>
\*   SEVERITY_MAPPING[level].includes(violation.impact)) || 'unknown'
\*                                                     (axeScanner.js:245-246)
RECURSIVE FindLevel(_, _)
FindLevel(levels, impact) ==
  IF levels = <<>> THEN "unknown"
  ELSE IF impact \in SEVERITY_MAPPING[Head(levels)] THEN Head(levels)
  ELSE FindLevel(Tail(levels), impact)

severityOf(impact) == FindLevel(SeverityLevels, impact)

\* generateFixSuggestions reads violation.nodes[0].html while it builds the
\* cache key, before its try block (part_002:253-258): a violation without
\* nodes makes it throw, and Promise.all rejects enhanceResults.
SuggestionThrows(v) == v.nodes = 0

\* scanPage hands back a fresh result (axeScanner.js:147-215).
scanPage(vs) ==
  /\ enhanced = [status |-> "none"]
  /\ scanResults = <<>>
  /\ vs # <<>>
  /\ scanResults' = vs
  /\ UNCHANGED enhanced
  /\ UNCHANGED othersOfEnhance

\* enhanceResults(results): every violation gets its severity and a
\* suggestion (the provider's answer or the error payload), then the metrics
\* are computed over the processed list (axeScanner.js:226-287).
enhanceResults(sugg) ==
  /\ enhanced = [status |-> "none"]
  /\ IF \E i \in DOMAIN scanResults : SuggestionThrows(scanResults[i])
     THEN enhanced' = [status |-> "threw"]
     ELSE LET processed ==
                [i \in DOMAIN scanResults |->
                   [impact |-> scanResults[i].impact,
                    severity |-> severityOf(scanResults[i].impact),
                    suggestion |-> sugg[i]]]
          IN enhanced' =
               [status |-> "ok",
                violations |-> processed,
                riskScore |->
                  calculateRiskScore([i \in DOMAIN processed |-> processed[i].severity]),
                violationCount |-> Len(processed)]
  /\ UNCHANGED scanResults
  /\ UNCHANGED othersOfEnhance

InitEnhanceVars ==
  /\ scanResults = <<>>
  /\ enhanced = [status |-> "none"]

\* ==================================================================
\* The store: schema (part_002:1-49), AIIndexer.storePageResults
\* (part_001:75-159), storeScanResults (part_000:258-334) and the searches
\* that read it (searchEngine.js:117-170, 215-280)
\* ==================================================================
\* Page urls handed to the store: two pages of one domain, one of another.
StoreUrls == {"https://a.com/", "https://a.com/about", "https://b.org/"}

\* new URL(url).hostname (part_000:267; part_001:24-25 for baseDomain)
hostOf(url) == IF url = "https://b.org/" THEN "b.org" ELSE "a.com"

\* The violation axe reports for its i-th rule, as enhanceResults returns it:
\* rule id and severity.  axe reports a rule at most once per page.
AxeViolation(i) ==
  [id |-> i, severity |-> IF i % 2 = 1 THEN "critical" ELSE "low"]

\* scanData.violations: the violated rules, in rule order.
RECURSIVE RulesInOrder(_, _)
RulesInOrder(rules, i) ==
  IF i > MaxViolations THEN <<>>
  ELSE (IF i \in rules THEN <<AxeViolation(i)>> ELSE <<>>) \o RulesInOrder(rules, i + 1)

ViolationLists == {RulesInOrder(rules, 1) : rules \in SUBSET (1..MaxViolations)}

\* scanData.metrics.riskScore, as enhanceResults fills it in
\* (axeScanner.js:267-268)
RiskOf(viols) == calculateRiskScore([i \in DOMAIN viols |-> viols[i].severity])

\* The three tables after CREATE TABLE, and the AUTOINCREMENT counters of
\* sqlite_sequence (part_002:13-41).
EmptyDb ==
  [websites |-> {}, pages |-> {}, violations |-> {},
   seqW |-> 0, seqP |-> 0, seqV |-> 0]

\* INSERT OR REPLACE INTO websites (domain, compliance_score): the row that
\* holds the domain (UNIQUE, part_002:15) is deleted and a row with a fresh
\* AUTOINCREMENT id is inserted.  With foreign keys enforced the delete
\* cascades to the pages of the old row and to their violations
\* (part_002:28, 40); without, those rows stay and point at the old id.
ReplaceWebsite(db, fk, dom, score) ==
  LET old == {w \in db.websites : w.domain = dom}
      oldIds == {w.id : w \in old}
      deadPages == IF fk THEN {p \in db.pages : p.website_id \in oldIds} ELSE {}
      deadPageIds == {p.id : p \in deadPages}
      deadViolations ==
        IF fk THEN {v \in db.violations : v.page_id \in deadPageIds} ELSE {}
  IN [db EXCEPT !.websites = (@ \ old) \cup
                               {[id |-> db.seqW + 1, domain |-> dom, score |-> score]},
                !.pages = @ \ deadPages,
                !.violations = @ \ deadViolations,
                !.seqW = @ + 1]

\* (SELECT id FROM websites WHERE domain = ?); 0 stands for NULL.
WebsiteId(db, dom) ==
  IF \E w \in db.websites : w.domain = dom
  THEN (CHOOSE w \in db.websites : w.domain = dom).id
  ELSE 0

\* INSERT OR REPLACE INTO pages (website_id, url, title, risk_score,
\* scan_data): the row that holds the url (UNIQUE, part_002:23) is deleted,
\* with its violations when foreign keys are enforced, and a row with a
\* fresh id is inserted; this.lastID is that id.
ReplacePage(db, fk, dom, url, risk) ==
  LET old == {p \in db.pages : p.url = url}
      oldIds == {p.id : p \in old}
      deadViolations ==
        IF fk THEN {v \in db.violations : v.page_id \in oldIds} ELSE {}
  IN [db EXCEPT !.pages = (@ \ old) \cup
                            {[id |-> db.seqP + 1, website_id |-> WebsiteId(db, dom),
                              url |-> url, risk |-> risk]},
                !.violations = @ \ deadViolations,
                !.seqP = @ + 1]

\* DELETE FROM violations WHERE page_id = ?
DeleteViolations(db, pageId) ==
  [db EXCEPT !.violations = {v \in @ : v.page_id # pageId}]

\* INSERT INTO violations (page_id, violation_id, ..., embedding)
InsertViolation(db, pageId, violation, embedding) ==
  [db EXCEPT !.violations = @ \cup
                {[id |-> db.seqV + 1, page_id |-> pageId,
                  violation_id |-> violation.id, severity |-> violation.severity,
                  embedding |-> embedding]},
             !.seqV = @ + 1]

\* What a statement run on the shared connection reads: the content of its
\* open transaction, else the committed file.
View == IF conn.tx THEN conn.db ELSE file

\* Rows in the order of their ids, and the violations they hold.
RECURSIVE RowsById(_)
RowsById(rows) ==
  IF rows = {} THEN <<>>
  ELSE LET first == CHOOSE r \in rows : \A q \in rows : r.id <= q.id
       IN <<first>> \o RowsById(rows \ {first})

ViolationsOfRows(rows) ==
  LET ordered == RowsById(rows)
  IN [i \in DOMAIN ordered |->
        [id |-> ordered[i].violation_id, severity |-> ordered[i].severity]]

\* SELECT * FROM violations WHERE page_id = (the row of pages with this url)
\*                                                    (part_000:197-206)
AttachedTo(db, url) ==
  ViolationsOfRows({v \in db.violations :
                      \E p \in db.pages : p.url = url /\ p.id = v.page_id})

\* FROM violations v JOIN pages p ON v.page_id = p.id
\* JOIN websites w ON p.website_id = w.id: the rows a search returns, here
\* those of one url (searchEngine.js:138-141, 230-233).
SearchRows(db, url) ==
  ViolationsOfRows({v \in db.violations :
                      \E p \in db.pages :
                        /\ p.url = url
                        /\ p.id = v.page_id
                        /\ \E w \in db.websites : w.id = p.website_id})

\* The statement of storePageResults that the database fails, if any.
\* "insert3" is the third INSERT INTO violations (part_001:173-188).
PageFaults(viols) ==
  {"none", "website", "page"} \cup (IF Len(viols) >= 3 THEN {"insert3"} ELSE {})

\* Positions of a store call.
Running == {"page", "rollback", "delete", "insert", "commit", "lateInsert"}
Finished == {"idle", "done", "dead", "rejected"}

NoCall ==
  [op |-> "none", pc |-> "idle", url |-> "", viols |-> <<>>, fault |-> "none",
   settled |-> "none", pageId |-> 0, i |-> 0, embedding |-> "",
   existed |-> FALSE, before |-> <<>>, beforeSeen |-> <<>>]

NewCall(op, pc, url, viols, fault, settled) ==
  [op |-> op, pc |-> pc, url |-> url, viols |-> viols, fault |-> fault,
   settled |-> settled, pageId |-> 0, i |-> 0, embedding |-> "",
   existed |-> url \in storedOk /\ \E p \in View.pages : p.url = url,
   before |-> AttachedTo(View, url),
   beforeSeen |-> SearchRows(View, url)]

NotObserved == [seen |-> FALSE, rows |-> <<>>]

\* ---- AIIndexer.storePageResults.  this.db is whatever '../db/schema'
\* exports (part_001:2, 12).  The module of part_002:1-49 exports the async
\* initializer, not a connection, so with it this.db.serialize is not a
\* function; the model also follows the call with this.db being the
\* connection the initializer resolves to (foreign keys enforced,
\* part_002:11), which is the one the searches read.
\*
\* storePageResults when this.db is the initializer function: the executor
\* throws a TypeError at this.db.serialize, the promise rejects and no
\* statement is issued (part_001:77-78).
storePageResults_noConnection(url, viols) ==
  /\ call.pc \in Finished
  /\ nCalls < MaxCalls
  /\ call' = NewCall("storePageResults", "rejected", url, viols, "none", "rejected")
  /\ nCalls' = nCalls + 1
  /\ observed' = NotObserved
  /\ UNCHANGED <<file, conn, scan, storedOk>>
  /\ UNCHANGED othersOfStore

\* storePageResults(domain, url, title, scanData), up to the callback of the
\* website upsert (part_001:75-91).  BEGIN TRANSACTION opens a transaction
\* unless the connection still has one open (then it fails, unheard, and the
\* statements join the open one).  If the upsert fails the callback queues
\* ROLLBACK and rejects; else it queues the page upsert.
storePageResults(url, viols, fault) ==
  /\ call.pc \in Finished
  /\ nCalls < MaxCalls
  /\ IF fault = "website"
     THEN /\ conn' = [tx |-> TRUE, db |-> View]
          /\ call' = NewCall("storePageResults", "rollback", url, viols, fault, "rejected")
     ELSE /\ conn' = [tx |-> TRUE,
                      db |-> ReplaceWebsite(View, TRUE, hostOf(url), 100 - RiskOf(viols))]
          /\ call' = NewCall("storePageResults", "page", url, viols, fault, "pending")
  /\ nCalls' = nCalls + 1
  /\ observed' = NotObserved
  /\ UNCHANGED <<file, scan, storedOk>>
  /\ UNCHANGED othersOfStore

\* The ROLLBACK queued by the website callback runs (part_001:88).
StorePage_Rollback ==
  /\ call.op = "storePageResults"
  /\ call.pc = "rollback"
  /\ conn' = [tx |-> FALSE, db |-> EmptyDb]
  /\ call' = [call EXCEPT !.pc = "rejected"]
  /\ UNCHANGED <<file, scan, observed, storedOk, nCalls>>
  /\ UNCHANGED othersOfStore

\* The page upsert runs and its callback is called (part_001:93-149).  The
\* callback is `async function(err)`, so inside it `this` is the sqlite3
\* Statement (that is how it reads this.lastID) and this.db is undefined:
\*  - on err, this.db.run('ROLLBACK') throws a TypeError before reject(err)
\*    (part_001:102-105);
\*  - else the executor of the DELETE promise throws the same TypeError
\*    (part_001:110-116), the catch runs this.db.run('ROLLBACK'), which throws
\*    again before reject(err) (part_001:145-148).
\* Either way the async callback's own promise rejects unheard, neither
\* resolve nor reject of storePageResults is ever called, no DELETE, INSERT,
\* COMMIT or ROLLBACK is issued, and the transaction stays open.
StorePage_PageUpsert ==
  /\ call.op = "storePageResults"
  /\ call.pc = "page"
  /\ IF call.fault = "page"
     THEN UNCHANGED conn
     ELSE conn' = [conn EXCEPT !.db = ReplacePage(@, TRUE, hostOf(call.url),
                                                  call.url, RiskOf(call.viols))]
  /\ call' = [call EXCEPT !.pc = "dead", !.pageId = conn'.db.seqP]
  /\ UNCHANGED <<file, scan, observed, storedOk, nCalls>>
  /\ UNCHANGED othersOfStore

\* ---- storeScanResults, on a connection of its own (part_000:259): no
\* PRAGMA foreign_keys is run on it, so SQLite's default applies and foreign
\* keys are not enforced.
\*
\* storeScanResults(url, scanData) up to the callback of the website upsert
\* (part_000:258-273), when no other connection holds the write lock.
storeScanResults(url, viols) ==
  /\ call.pc \in Finished
  /\ nCalls < MaxCalls
  /\ ~conn.tx
  /\ scan' = ReplaceWebsite(file, FALSE, hostOf(url), 100 - Min(RiskOf(viols), 100))
  /\ call' = NewCall("storeScanResults", "page", url, viols, "none", "pending")
  /\ nCalls' = nCalls + 1
  /\ observed' = NotObserved
  /\ UNCHANGED <<file, conn, storedOk>>
  /\ UNCHANGED othersOfStore

\* The same call while the shared connection has a transaction with writes
\* open: every write of this connection fails with SQLITE_BUSY, the first
\* callback rejects (part_000:272) and nothing is stored.
storeScanResults_busy(url, viols) ==
  /\ call.pc \in Finished
  /\ nCalls < MaxCalls
  /\ conn.tx
  /\ call' = NewCall("storeScanResults", "rejected", url, viols, "none", "rejected")
  /\ nCalls' = nCalls + 1
  /\ observed' = NotObserved
  /\ UNCHANGED <<file, conn, scan, storedOk>>
  /\ UNCHANGED othersOfStore

\* The page upsert runs; const pageId = this.lastID (part_000:275-285).
StoreScan_PageUpsert ==
  /\ call.op = "storeScanResults"
  /\ call.pc = "page"
  /\ scan' = ReplacePage(scan, FALSE, hostOf(call.url), call.url, RiskOf(call.viols))
  /\ call' = [call EXCEPT !.pc = "delete", !.pageId = scan'.seqP]
  /\ UNCHANGED <<file, conn, observed, storedOk, nCalls>>
  /\ UNCHANGED othersOfStore

\* DELETE FROM violations WHERE page_id = pageId runs; its callback starts
\* the loop over scanData.violations (part_000:287-296).
StoreScan_Delete ==
  /\ call.op = "storeScanResults"
  /\ call.pc = "delete"
  /\ scan' = DeleteViolations(scan, call.pageId)
  /\ call' = [call EXCEPT !.pc = IF call.viols = <<>> THEN "commit" ELSE "insert",
                          !.i = 1]
  /\ UNCHANGED <<file, conn, observed, storedOk, nCalls>>
  /\ UNCHANGED othersOfStore

\* One turn of the loop for a violation that is not the last: the embedding
\* arrives (SearchEngine.generateEmbedding returns [] when the provider
\* fails, searchEngine.js:202-213), the INSERT is issued and runs while the
\* next embedding is awaited (part_000:296-313).
StoreScan_Insert(embedding) ==
  /\ call.op = "storeScanResults"
  /\ call.pc = "insert"
  /\ call.i < Len(call.viols)
  /\ scan' = InsertViolation(scan, call.pageId, call.viols[call.i], embedding)
  /\ call' = [call EXCEPT !.i = @ + 1]
  /\ UNCHANGED <<file, conn, observed, storedOk, nCalls>>
  /\ UNCHANGED othersOfStore

\* The last turn: the INSERT and the COMMIT are issued in the same tick,
\* outside db.serialize's callback, so the connection runs them in either
\* order (part_000:299-317).  Here the INSERT runs first.
StoreScan_LastInsert(embedding) ==
  /\ call.op = "storeScanResults"
  /\ call.pc = "insert"
  /\ call.i = Len(call.viols)
  /\ scan' = InsertViolation(scan, call.pageId, call.viols[call.i], embedding)
  /\ call' = [call EXCEPT !.pc = "commit"]
  /\ UNCHANGED <<file, conn, observed, storedOk, nCalls>>
  /\ UNCHANGED othersOfStore

\* Here the COMMIT runs first: the transaction is committed without the last
\* violation and the promise resolves (part_000:314-317).
StoreScan_CommitOvertakes(embedding) ==
  /\ call.op = "storeScanResults"
  /\ call.pc = "insert"
  /\ call.i = Len(call.viols)
  /\ file' = scan
  /\ call' = [call EXCEPT !.pc = "lateInsert", !.settled = "resolved",
                          !.embedding = embedding]
  /\ storedOk' = storedOk \cup {call.url}
  /\ UNCHANGED <<conn, scan, observed, nCalls>>
  /\ UNCHANGED othersOfStore

\* ... and the overtaken INSERT runs after it, in autocommit mode, before
\* db.close() (part_000:332) gets its turn.
StoreScan_LateInsert ==
  /\ call.op = "storeScanResults"
  /\ call.pc = "lateInsert"
  /\ file' = InsertViolation(file, call.pageId, call.viols[call.i], call.embedding)
  /\ call' = [call EXCEPT !.pc = "done"]
  /\ UNCHANGED <<conn, scan, observed, storedOk, nCalls>>
  /\ UNCHANGED othersOfStore

\* COMMIT runs and its callback resolves (part_000:314-317).
StoreScan_Commit ==
  /\ call.op = "storeScanResults"
  /\ call.pc = "commit"
  /\ file' = scan
  /\ call' = [call EXCEPT !.pc = "done", !.settled = "resolved"]
  /\ storedOk' = storedOk \cup {call.url}
  /\ UNCHANGED <<conn, scan, observed, nCalls>>
  /\ UNCHANGED othersOfStore

\* A search (semanticSearch or searchViolations) runs its SELECT on the
\* shared connection while a store call is in flight.
Search ==
  /\ call.pc \in Running
  /\ ~observed.seen
  /\ observed' = [seen |-> TRUE, rows |-> SearchRows(View, call.url)]
  /\ UNCHANGED <<file, conn, scan, call, storedOk, nCalls>>
  /\ UNCHANGED othersOfStore

InitStoreVars ==
  /\ file = EmptyDb
  /\ conn = [tx |-> FALSE, db |-> EmptyDb]
  /\ scan = EmptyDb
  /\ call = NoCall
  /\ observed = NotObserved
  /\ storedOk = {}
  /\ nCalls = 0

\* ==================================================================
\* generateFixSuggestions and its RESPONSE_CACHE (part_002:243-351)
\* ==================================================================
\* The characters of a node's html: a non-blank one and a line break.
HtmlChars == {"x", "\n"}
IsSpace(c) == c \in {" ", "\n"}

\* violation.nodes[0].html, as a sequence of characters
HtmlSamples == SeqsUpTo(HtmlChars, MaxHtmlLen)

\* The violation every sample is a variation of.
BaseViolation ==
  [id |-> "image-alt", html |-> <<"x">>, impact |-> "critical",
   helpUrl |-> "https://rules/image-alt", nodes |-> 1]

\* The violations handed to generateFixSuggestions: the base one, those that
\* differ from it in one of id, impact, helpUrl or the html of the first
\* node, and one whose nodes list is empty.
SuggestViolations ==
  {BaseViolation,
   [BaseViolation EXCEPT !.id = "label"],
   [BaseViolation EXCEPT !.impact = "minor"],
   [BaseViolation EXCEPT !.helpUrl = "https://rules/label"],
   [BaseViolation EXCEPT !.nodes = 0, !.html = <<>>]}
    \cup {[BaseViolation EXCEPT !.html = h] : h \in HtmlSamples}

\* html.replace(/\s+/g, ' '): every run of white space becomes one blank.
RECURSIVE CollapseSpaces(_)
CollapseSpaces(s) ==
  IF s = <<>> THEN <<>>
  ELSE IF IsSpace(Head(s))
       THEN IF Len(s) > 1 /\ IsSpace(s[2])
            THEN CollapseSpaces(Tail(s))
            ELSE <<" ">> \o CollapseSpaces(Tail(s))
       ELSE <<Head(s)>> \o CollapseSpaces(Tail(s))

\* .trim()
RECURSIVE TrimStart(_)
TrimStart(s) == IF s # <<>> /\ IsSpace(Head(s)) THEN TrimStart(Tail(s)) ELSE s
RECURSIVE TrimEnd(_)
TrimEnd(s) ==
  IF s # <<>> /\ IsSpace(s[Len(s)]) THEN TrimEnd(SubSeq(s, 1, Len(s) - 1)) ELSE s
Trim(s) == TrimEnd(TrimStart(s))

\* cacheKey = JSON.stringify({id, html: nodes[0].html.replace(...).trim(),
\* impact, helpUrl}) (part_002:253-258): the four values, in this order.
CacheKey_noHelpUrl(v) ==
  [id |-> v.id, html |-> Trim(CollapseSpaces(v.html)), impact |-> v.impact]
CacheKey(v) ==
  [id |-> v.id, html |-> Trim(CollapseSpaces(v.html)), impact |-> v.impact,
   helpUrl |-> v.helpUrl]

\* The four values a suggestion is generated for, the html reduced to its
\* words: a blank stays only between two words.  Used by the history.
RECURSIVE WordsOf(_, _)
WordsOf(s, i) ==
  IF i > Len(s) THEN <<>>
  ELSE IF ~IsSpace(s[i]) THEN <<s[i]>> \o WordsOf(s, i + 1)
  ELSE IF /\ i > 1
          /\ ~IsSpace(s[i - 1])
          /\ \E j \in (i + 1)..Len(s) : ~IsSpace(s[j])
       THEN <<" ">> \o WordsOf(s, i + 1)
       ELSE WordsOf(s, i + 1)

FourValues(v) == <<v.id, WordsOf(v.html, 1), v.impact, v.helpUrl>>

\* response.choices[0].message.content.trim(): what the provider answers.
ProviderTexts == {"fix A", "fix B"}

\* Map.has / Map.get / Map.set
EmptyMap == [k \in {} |-> TRUE]
MapHas(map, key) == key \in DOMAIN map
MapSet(map, key, value) ==
  [k \in DOMAIN map \cup {key} |-> IF k = key THEN value ELSE map[k]]

NoSuggestCall ==
  [outcome |-> "none", v |-> BaseViolation, expected |-> FALSE,
   expectedText |-> "", value |-> [cached |-> FALSE]]

\* How a call begins, for the history: whether a suggestion had been
\* generated for the violation's four values, and which one.
BeginCall(v, outcome, value) ==
  [outcome |-> outcome, v |-> v,
   expected |-> FourValues(v) \in DOMAIN generated,
   expectedText |-> IF FourValues(v) \in DOMAIN generated
                    THEN generated[FourValues(v)] ELSE "",
   value |-> value]

\* generateFixSuggestions(violation) with an empty nodes list: nodes[0] is
\* undefined and reading .html of it throws, before the try (part_002:255).
generateFixSuggestions_throws(v) ==
  /\ nSuggest < MaxSuggestCalls
  /\ v.nodes = 0
  /\ lastCall' = BeginCall(v, "threw", [cached |-> FALSE])
  /\ returned' = [kind |-> "threw", v |-> v]
  /\ nSuggest' = nSuggest + 1
  /\ UNCHANGED <<RESPONSE_CACHE, pendingCalls, generated>>
  /\ UNCHANGED othersOfSuggest

\* ... with the key in the cache: the stored result is returned with
\* cached: true (part_002:261-265).
generateFixSuggestions_cached(v) ==
  /\ nSuggest < MaxSuggestCalls
  /\ v.nodes > 0
  /\ MapHas(RESPONSE_CACHE, CacheKey(v))
  /\ LET value == [RESPONSE_CACHE[CacheKey(v)] EXCEPT !.cached = TRUE]
     IN /\ lastCall' = BeginCall(v, "cached", value)
        /\ returned' = [kind |-> "value", v |-> v, value |-> value]
  /\ nSuggest' = nSuggest + 1
  /\ UNCHANGED <<RESPONSE_CACHE, pendingCalls, generated>>
  /\ UNCHANGED othersOfSuggest

\* ... with the key not in the cache: the prompt is built and the provider
\* is called (part_002:267-311).
generateFixSuggestions_request(v) ==
  /\ nSuggest < MaxSuggestCalls
  /\ v.nodes > 0
  /\ ~MapHas(RESPONSE_CACHE, CacheKey(v))
  /\ pendingCalls' = [pendingCalls EXCEPT ![v] = @ + 1]
  /\ lastCall' = BeginCall(v, "requested", [cached |-> FALSE])
  /\ nSuggest' = nSuggest + 1
  /\ UNCHANGED <<RESPONSE_CACHE, generated, returned>>
  /\ UNCHANGED othersOfSuggest

\* The provider answers a waiting call: the result is stored under the key
\* and returned (part_002:329-340).
Provider_answers(v, text) ==
  /\ pendingCalls[v] > 0
  /\ LET result == [id |-> v.id, suggestion |-> text, cached |-> FALSE]
     IN /\ RESPONSE_CACHE' = MapSet(RESPONSE_CACHE, CacheKey(v), result)
        /\ returned' = [kind |-> "value", v |-> v, value |-> result]
  /\ pendingCalls' = [pendingCalls EXCEPT ![v] = @ - 1]
  /\ generated' = MapSet(generated, FourValues(v), text)
  /\ UNCHANGED <<lastCall, nSuggest>>
  /\ UNCHANGED othersOfSuggest

\* The provider call of a waiting call fails (timeout, rate limit, service
\* error, malformed answer): the error payload is returned and nothing is
\* stored (part_002:342-350).
Provider_fails(v) ==
  /\ pendingCalls[v] > 0
  /\ returned' = [kind |-> "value", v |-> v,
                  value |-> [id |-> v.id, error |-> "AI Service Unavailable",
                             fallback |-> v.helpUrl, cached |-> FALSE]]
  /\ pendingCalls' = [pendingCalls EXCEPT ![v] = @ - 1]
  /\ UNCHANGED <<RESPONSE_CACHE, generated, lastCall, nSuggest>>
  /\ UNCHANGED othersOfSuggest

InitSuggestVars ==
  /\ RESPONSE_CACHE = EmptyMap
  /\ pendingCalls = [v \in SuggestViolations |-> 0]
  /\ generated = EmptyMap
  /\ lastCall = NoSuggestCall
  /\ returned = [kind |-> "none"]
  /\ nSuggest = 0

\* ==================================================================
\* AIIndexer.indexWebsite and updateWebsiteScore (part_001:15-73, 240-249)
\* ==================================================================
\* const BATCH_SIZE = 5 (part_001:35)
BATCH_SIZE == 5

\* enhanced.metrics.riskScore of a page: 55 is one critical and one low
\* violation, 0 is no violation.
PageRisks == {0, 55}

\* A compliance_score: a fraction, since the mean of the page scores need
\* not be whole.
ScoreRow(num, den) == [exists |-> TRUE, num |-> num, den |-> den]
NoRow == [exists |-> FALSE, num |-> 0, den |-> 1]

\* The Website row of the domain as a statement on the indexer's connection
\* reads it: inside the open transaction if there is one.
IndexView == IF indexDb.tx THEN indexDb.txRow ELSE indexDb.row

\* The pages of the batch being processed: pages.slice(i, i + BATCH_SIZE)
InBatch(p) ==
  /\ p \in DOMAIN indexRun.pages
  /\ indexRun.i <= p
  /\ p < indexRun.i + BATCH_SIZE

\* Promise.all of the batch has settled: the async function of every page
\* has returned.  A page whose storePageResults never settles keeps it open.
BatchSettled_any ==
  \E p \in DOMAIN indexRun.pages : InBatch(p) /\ indexRun.pages[p].state = "failed"
BatchSettled ==
  \A p \in DOMAIN indexRun.pages : InBatch(p) => indexRun.pages[p].state = "failed"

\* avgScore and complianceScore (part_001:58-59), as a fraction
ComplianceScore(totalScore, indexedPages) ==
  LET den == IF indexedPages > 0 THEN indexedPages ELSE 1
  IN [num |-> 100 * den - Min(totalScore, 100 * den), den |-> den]

\* The Website row the domain can have before a run: none, or one that
\* storeScanResults committed (score 100 - min(riskScore, 100)).
PriorRows == {NoRow} \cup {ScoreRow(100 - Min(r, 100), 1) : r \in PageRisks}

\* risk_score of the Pages such a row owns: the page storeScanResults stored
\* with it (part_000:275-285).  No statement of a run that returns changes
\* the pages table.
OwnedRisks(row) == IF row.exists THEN <<100 - row.num>> ELSE <<>>

\* indexWebsite(domain) up to the first batch: the crawl has returned n pages
\* (part_001:15-36).  this.db is either the initializer function that
\* db/schema exports or the connection it resolves to (part_001:2, 12).
indexWebsite(n, wired, row) ==
  /\ indexRun.pc = "idle"
  /\ indexRun' = [pc |-> "batch", i |-> 1,
                  pages |-> [p \in 1..n |-> [state |-> "waiting", risk |-> 0, error |-> ""]],
                  totalScore |-> 0, indexedPages |-> 0,
                  result |-> [pages |-> 0, num |-> 0, den |-> 1]]
  /\ indexDb' = [wired |-> wired, row |-> row, tx |-> FALSE, txRow |-> NoRow,
                 rollbackQueued |-> FALSE, owned |-> OwnedRisks(row)]
  /\ UNCHANGED othersOfIndex

\* scanPage or enhanceResults throws for a page of the batch: the catch logs
\* it (part_001:41-53).
IndexPage_scanFails(p) ==
  /\ indexRun.pc = "batch"
  /\ InBatch(p)
  /\ indexRun.pages[p].state = "waiting"
  /\ indexRun' = [indexRun EXCEPT !.pages[p].state = "failed",
                                  !.pages[p].error = "scan"]
  /\ UNCHANGED indexDb
  /\ UNCHANGED othersOfIndex

\* The page is scanned and enhanced, and storePageResults rejects because
\* this.db is the initializer function (storePageResults_noConnection): the
\* catch logs it.
IndexPage_storeRejects(p) ==
  /\ indexRun.pc = "batch"
  /\ InBatch(p)
  /\ indexRun.pages[p].state = "waiting"
  /\ ~indexDb.wired
  /\ indexRun' = [indexRun EXCEPT !.pages[p].state = "failed",
                                  !.pages[p].error = "store"]
  /\ UNCHANGED indexDb
  /\ UNCHANGED othersOfIndex

\* The page is scanned and enhanced, and the website upsert of
\* storePageResults fails: BEGIN has opened a transaction (unless one is
\* open), the callback queues ROLLBACK and rejects (part_001:80-90), the
\* catch logs it.
IndexPage_websiteUpsertFails(p) ==
  /\ indexRun.pc = "batch"
  /\ InBatch(p)
  /\ indexRun.pages[p].state = "waiting"
  /\ indexDb.wired
  /\ indexRun' = [indexRun EXCEPT !.pages[p].state = "failed",
                                  !.pages[p].error = "store"]
  /\ indexDb' = [indexDb EXCEPT !.tx = TRUE, !.txRow = IndexView,
                                !.rollbackQueued = TRUE]
  /\ UNCHANGED othersOfIndex

\* The page is scanned and enhanced, and storePageResults gets as far as the
\* callback of the page upsert, which loses `this` (StorePage_PageUpsert):
\* the promise never settles, and neither does the await of the page
\* (part_001:46).  totalScore += riskScore and indexedPages++
\* (part_001:48-49) come after that await: since no storePageResults call
\* ever resolves, they are never run.
IndexPage_storeNeverSettles(p, risk) ==
  /\ indexRun.pc = "batch"
  /\ InBatch(p)
  /\ indexRun.pages[p].state = "waiting"
  /\ indexDb.wired
  /\ indexRun' = [indexRun EXCEPT !.pages[p] = [state |-> "hung", risk |-> risk, error |-> ""]]
  /\ indexDb' = [indexDb EXCEPT !.tx = TRUE, !.txRow = ScoreRow(100 - risk, 1)]
  /\ UNCHANGED othersOfIndex

\* The page is scanned and enhanced, the website upsert of storePageResults
\* succeeds and its page upsert fails: the callback of the page upsert throws
\* at this.db.run('ROLLBACK') before it can reject (part_001:101-105,
\* StorePage_PageUpsert), so this await never settles either.
IndexPage_pageUpsertFails(p, risk) ==
  /\ indexRun.pc = "batch"
  /\ InBatch(p)
  /\ indexRun.pages[p].state = "waiting"
  /\ indexDb.wired
  /\ indexRun' = [indexRun EXCEPT !.pages[p] = [state |-> "hung", risk |-> risk,
                                                error |-> "store"]]
  /\ indexDb' = [indexDb EXCEPT !.tx = TRUE, !.txRow = ScoreRow(100 - risk, 1)]
  /\ UNCHANGED othersOfIndex

\* A queued ROLLBACK runs.
Index_Rollback ==
  /\ indexDb.rollbackQueued
  /\ indexDb' = [indexDb EXCEPT !.tx = FALSE, !.txRow = NoRow,
                                !.rollbackQueued = FALSE]
  /\ UNCHANGED indexRun
  /\ UNCHANGED othersOfIndex

\* The batch has settled and pages are left: the loop takes the next batch
\* (part_001:36-37).
Index_NextBatch ==
  /\ indexRun.pc = "batch"
  /\ BatchSettled
  /\ indexRun.i + BATCH_SIZE <= Len(indexRun.pages)
  /\ indexRun' = [indexRun EXCEPT !.i = @ + BATCH_SIZE]
  /\ UNCHANGED indexDb
  /\ UNCHANGED othersOfIndex

\* The last batch has settled: the score is computed and updateWebsiteScore
\* runs UPDATE websites SET compliance_score = ? WHERE domain = ?, which
\* changes the row if there is one; indexWebsite returns the record
\* (part_001:57-68, 240-249).  The UPDATE is issued while a ROLLBACK queued
\* by a page may not have run yet.
updateWebsiteScore ==
  /\ indexRun.pc = "batch"
  /\ BatchSettled
  /\ indexRun.i + BATCH_SIZE > Len(indexRun.pages)
  /\ indexDb.wired
  /\ LET score == ComplianceScore(indexRun.totalScore, indexRun.indexedPages)
         updated(row) == IF row.exists THEN ScoreRow(score.num, score.den) ELSE row
     IN /\ indexDb' = IF indexDb.tx
                      THEN [indexDb EXCEPT !.txRow = updated(@)]
                      ELSE [indexDb EXCEPT !.row = updated(@)]
        /\ indexRun' = [indexRun EXCEPT
                          !.pc = "returned",
                          !.result = [pages |-> indexRun.indexedPages,
                                      num |-> score.num, den |-> score.den]]
  /\ UNCHANGED othersOfIndex

\* The same when this.db is the initializer function: this.db.run is not a
\* function, updateWebsiteScore rejects and so does indexWebsite
\* (part_001:241-242, 61).
updateWebsiteScore_noConnection ==
  /\ indexRun.pc = "batch"
  /\ BatchSettled
  /\ indexRun.i + BATCH_SIZE > Len(indexRun.pages)
  /\ ~indexDb.wired
  /\ indexRun' = [indexRun EXCEPT !.pc = "rejected"]
  /\ UNCHANGED indexDb
  /\ UNCHANGED othersOfIndex

InitIndexVars ==
  /\ indexRun = [pc |-> "idle", i |-> 1, pages |-> <<>>,
                 totalScore |-> 0, indexedPages |-> 0,
                 result |-> [pages |-> 0, num |-> 0, den |-> 1]]
  /\ indexDb = [wired |-> FALSE, row |-> NoRow, tx |-> FALSE, txRow |-> NoRow,
                rollbackQueued |-> FALSE, owned |-> <<>>]

\* ==================================================================
\* SearchEngine.cosineSimilarity (searchEngine.js:172-197) and
\* AIIndexer.compressEmbedding (part_001:196-200)
\* ==================================================================
\* Numbers are counted in units of 1/381: 381 is 1.0 and 3 is one
\* quantization step, 1/127.  No such number times 127 falls on a half.
One == 381

\* The components of an embedding: small ones around the quantization step
\* and a larger one, 40/381 (about 0.105).
Components == (-MaxSmallComponent..MaxSmallComponent) \cup {-40, 40}

\* Embeddings as arrays: none, one or two components.
Embeddings == SeqsUpTo(Components, 2)

\* Math.round(val * 127): the integer nearest to it, a half going up.
RoundTimes127_magnitude(k) ==
  LET a == IF k < 0 THEN -k ELSE k IN (254 * a + One) \div (2 * One)
RoundTimes127(k) == (254 * k + One) \div (2 * One)

\* new Int8Array(...): the value modulo 256, in -128..127
ToInt8_unsigned(n) == n % 256
ToInt8(n) == ((n + 128) % 256) - 128

\* compressEmbedding(embedding): JSON.stringify of the Int8Array's elements
compressEmbedding(embedding) ==
  [kind |-> "string",
   vec |-> [i \in DOMAIN embedding |-> ToInt8(RoundTimes127(embedding[i]))]]

Array(vec) == [kind |-> "array", vec |-> vec]
Missing == [kind |-> "missing", vec |-> <<>>]

\* decompress: JSON.parse(embedding).map(val => val / 127) for a string, the
\* argument itself otherwise (searchEngine.js:174-179)
decompress(embedding) ==
  IF embedding.kind = "string"
  THEN [i \in DOMAIN embedding.vec |-> 3 * embedding.vec[i]]
  ELSE embedding.vec

\* dot, magA, magB after the loop (searchEngine.js:190-195)
RECURSIVE SumProducts(_, _, _)
SumProducts(a, b, i) ==
  IF i > Len(a) THEN 0 ELSE a[i] * b[i] + SumProducts(a, b, i + 1)

\* magA && magB
BothMagnitudes_onlyA(magA, magB) == magA # 0
BothMagnitudes(magA, magB) == magA # 0 /\ magB # 0

\* The result without a division: 0.
ZeroSimilarity == [divided |-> FALSE, dot |-> 0, magA |-> 0, magB |-> 0]

\* cosineSimilarity(vecA, vecB).  The quotient
\* dot / (Math.sqrt(magA) * Math.sqrt(magB)) is kept as its three terms.
cosineSimilarity(vecA, vecB) ==
  IF vecA.kind = "missing" \/ vecB.kind = "missing" THEN ZeroSimilarity
  ELSE LET a == decompress(vecA)
           b == decompress(vecB)
       IN IF Len(a) # Len(b) THEN ZeroSimilarity
          ELSE LET dot == SumProducts(a, b, 1)
                   magA == SumProducts(a, a, 1)
                   magB == SumProducts(b, b, 1)
               IN IF BothMagnitudes(magA, magB)
                  THEN [divided |-> TRUE, dot |-> dot, magA |-> magA, magB |-> magB]
                  ELSE ZeroSimilarity

\* The arguments cosineSimilarity is called with: arrays, compressed
\* embeddings, and nothing (null or undefined).
CosineArguments ==
  {Array(e) : e \in Embeddings}
    \cup {compressEmbedding(e) : e \in Embeddings}
    \cup {Missing}

\* A call of cosineSimilarity.
CallCosineSimilarity ==
  /\ cosCall.via = "none"
  /\ \E vecA \in CosineArguments, vecB \in CosineArguments :
       cosCall' = [via |-> "direct", a |-> vecA, b |-> vecB,
                   result |-> cosineSimilarity(vecA, vecB)]
  /\ UNCHANGED othersOfCosine

\* An embedding is compressed as insertViolation does (part_001:168-171) and
\* compared with itself.
CompressAndCompare ==
  /\ cosCall.via = "none"
  /\ \E embedding \in Embeddings :
       cosCall' = [via |-> "roundTrip", a |-> Array(embedding),
                   b |-> compressEmbedding(embedding),
                   result |-> cosineSimilarity(Array(embedding),
                                               compressEmbedding(embedding))]
  /\ UNCHANGED othersOfCosine

\* The embeddings compressEmbedding is called with: components anywhere in
\* [-1, 1], the two ends and values around a half included.
UnitComponents == Components \cup {-One, -191, 190, One}
UnitEmbeddings == SeqsUpTo(UnitComponents, 2)

\* A call of compressEmbedding (part_001:171, 196-200).
CallCompressEmbedding ==
  /\ cosCall.via = "none"
  /\ \E embedding \in UnitEmbeddings :
       cosCall' = [via |-> "compress", a |-> Array(embedding),
                   b |-> compressEmbedding(embedding), result |-> ZeroSimilarity]
  /\ UNCHANGED othersOfCosine

InitCosineVars ==
  cosCall = [via |-> "none", a |-> Missing, b |-> Missing, result |-> ZeroSimilarity]

\* ==================================================================
\* SearchEngine.semanticSearch (searchEngine.js:117-170)
\* ==================================================================
\* What the embedding column of a loaded row parses to: arrays of two
\* components, a zero vector, an array of another dimension, and the empty
\* array that storeScanResults writes when no embedding could be generated.
RowEmbeddings ==
  {<<40, 0>>, <<4, 0>>, <<4, 1>>, <<1, 4>>, <<0, 0>>, <<-1, 0>>, <<1>>, <<>>}

\* What generateEmbedding returns for the query: an embedding, or the empty
\* array after a failure (searchEngine.js:202-213).
QueryEmbeddings == {<<1, 0>>, <<1, 1>>, <<>>}

\* The limit argument: how many results the caller asks for (5 by default).
Limits == 0..MaxLimit

\* The map callback returns null for a row it skips (searchEngine.js:150).
Null == [row |-> 0, similarity |-> ZeroSimilarity]

\* violations.map(...): null for a row of another dimension, the row with its
\* similarity otherwise (searchEngine.js:147-160)
MapRows(queryEmbedding, loaded) ==
  [i \in DOMAIN loaded |->
     IF Len(loaded[i]) # Len(queryEmbedding) THEN Null
     ELSE [row |-> i,
           similarity |-> cosineSimilarity(Array(queryEmbedding), Array(loaded[i]))]]

\* similarity > 0.3, the similarity being dot / (sqrt(magA) * sqrt(magB)) or 0
AboveThreshold(similarity) ==
  /\ similarity.divided
  /\ similarity.dot > 0
  /\ 100 * similarity.dot * similarity.dot > 9 * similarity.magA * similarity.magB

\* s > t for two similarities above the threshold
Exceeds(s, t) ==
  s.dot * s.dot * t.magA * t.magB > t.dot * t.dot * s.magA * s.magB

\* .filter(r => r !== null && r.similarity > 0.3) (searchEngine.js:161)
FilterRows(mapped) ==
  SelectSeq(mapped, LAMBDA r : r # Null /\ AboveThreshold(r.similarity))

\* .sort((a, b) => b.similarity - a.similarity): descending, entries of equal
\* similarity staying in their order (searchEngine.js:162)
RECURSIVE InsertDescending(_, _)
InsertDescending(sorted, r) ==
  IF sorted = <<>> THEN <<r>>
  ELSE IF Exceeds(r.similarity, sorted[Len(sorted)].similarity)
       THEN Append(InsertDescending(SubSeq(sorted, 1, Len(sorted) - 1), r),
                   sorted[Len(sorted)])
       ELSE Append(sorted, r)

RECURSIVE SortDescending(_)
SortDescending(list) ==
  IF list = <<>> THEN <<>>
  ELSE InsertDescending(SortDescending(SubSeq(list, 1, Len(list) - 1)),
                        list[Len(list)])

\* .slice(0, limit): a negative limit counts from the end (searchEngine.js:163)
Slice_keepsAll(list, limit) == list
Slice(list, limit) ==
  LET end == IF limit < 0 THEN Max(Len(list) + limit, 0) ELSE Min(limit, Len(list))
  IN SubSeq(list, 1, end)

\* What makes the try block throw: an empty query embedding
\* (searchEngine.js:122-124) or a failed read (searchEngine.js:143).
ThrowsInside_onlyEmbedding(queryEmbedding, dbOk) == queryEmbedding = <<>>
ThrowsInside(queryEmbedding, dbOk) == queryEmbedding = <<>> \/ ~dbOk

\* The value semanticSearch resolves with: [] from the catch block, the
\* sliced list otherwise.
SemanticResults(queryEmbedding, dbOk, limit) ==
  IF ThrowsInside(queryEmbedding, dbOk) THEN <<>>
  ELSE Slice(SortDescending(FilterRows(MapRows(queryEmbedding, embeddedRows))), limit)

\* A violation row with an embedding is in the table before the search.
LoadRow ==
  /\ search.pc = "idle"
  /\ Len(embeddedRows) < MaxRows
  /\ \E embedding \in RowEmbeddings : embeddedRows' = Append(embeddedRows, embedding)
  /\ UNCHANGED search
  /\ UNCHANGED othersOfSearch

\* semanticSearch(query, limit)
semanticSearch ==
  /\ search.pc = "idle"
  /\ \E queryEmbedding \in QueryEmbeddings, dbOk \in BOOLEAN, limit \in Limits :
       search' = [pc |-> "returned", queryEmbedding |-> queryEmbedding,
                  dbOk |-> dbOk, limit |-> limit,
                  results |-> SemanticResults(queryEmbedding, dbOk, limit)]
  /\ UNCHANGED embeddedRows
  /\ UNCHANGED othersOfSearch

InitSearchVars ==
  /\ embeddedRows = <<>>
  /\ search = [pc |-> "idle", queryEmbedding |-> <<>>, dbOk |-> TRUE, limit |-> 0,
               results |-> <<>>]

\* ==================================================================
\* enhanceResults, batch by batch          src/scanner/axeScanner.js:234-264
\* ==================================================================
\* const BATCH_SIZE = 5 (axeScanner.js:235)
EnhanceBatchSize == 5

\* violationBatches[k]: results.violations.slice(i, i + BATCH_SIZE), i being
\* the position of its first violation (axeScanner.js:237-239)
InEnhanceBatch(v, i) == i <= v /\ v < i + EnhanceBatchSize

\* batch.map(async (violation) => ...): the callback of every violation of
\* the batch runs up to its await at once, so every generateFixSuggestions
\* call of the batch is started in the same tick; a violation without nodes
\* makes its call throw at once (part_002:253-258).
StartBatch(gen, i, throwing) ==
  [v \in DOMAIN gen |->
     IF InEnhanceBatch(v, i)
     THEN IF v \in throwing THEN "threw" ELSE "outstanding"
     ELSE gen[v]]

\* Promise.all of the batch resolves when every promise of it has resolved
\* and rejects as soon as one has rejected (axeScanner.js:243-262).
PromiseAllResolved_any ==
  \E v \in DOMAIN enhanceRun.gen :
    InEnhanceBatch(v, enhanceRun.i) /\ enhanceRun.gen[v] = "done"
PromiseAllResolved ==
  \A v \in DOMAIN enhanceRun.gen :
    InEnhanceBatch(v, enhanceRun.i) => enhanceRun.gen[v] = "done"

PromiseAllRejected ==
  \E v \in DOMAIN enhanceRun.gen :
    InEnhanceBatch(v, enhanceRun.i) /\ enhanceRun.gen[v] = "threw"

\* enhanceResults(results) up to the await of the first batch: n violations,
\* those of `throwing` without nodes.  Without violations there is no batch
\* and the call returns.
enhanceResults_start ==
  /\ enhanceRun.pc = "idle"
  /\ \E n \in 0..MaxBatchViolations :
       \E throwing \in SUBSET (1..n) :
         enhanceRun' =
           [pc |-> IF n = 0 THEN "returned" ELSE "batch",
            i |-> 1,
            gen |-> StartBatch([v \in 1..n |-> "waiting"], 1, throwing),
            throwing |-> throwing]
  /\ UNCHANGED othersOfBatch

\* A generateFixSuggestions call returns: with the provider's answer, the
\* cached suggestion or the error payload (part_002:261-350).
Suggestion_settles(v) ==
  /\ v \in DOMAIN enhanceRun.gen
  /\ enhanceRun.gen[v] = "outstanding"
  /\ enhanceRun' = [enhanceRun EXCEPT !.gen[v] = "done"]
  /\ UNCHANGED othersOfBatch

\* Promise.all has resolved and a batch is left: the loop awaits the next
\* batch (axeScanner.js:242-243).
Enhance_NextBatch ==
  /\ enhanceRun.pc = "batch"
  /\ PromiseAllResolved
  /\ enhanceRun.i + EnhanceBatchSize <= Len(enhanceRun.gen)
  /\ enhanceRun' =
       [enhanceRun EXCEPT
          !.i = @ + EnhanceBatchSize,
          !.gen = StartBatch(@, enhanceRun.i + EnhanceBatchSize, enhanceRun.throwing)]
  /\ UNCHANGED othersOfBatch

\* Promise.all of the last batch has resolved: enhanceResults returns
\* (axeScanner.js:266-286).
Enhance_returns ==
  /\ enhanceRun.pc = "batch"
  /\ PromiseAllResolved
  /\ enhanceRun.i + EnhanceBatchSize > Len(enhanceRun.gen)
  /\ enhanceRun' = [enhanceRun EXCEPT !.pc = "returned"]
  /\ UNCHANGED othersOfBatch

\* Promise.all has rejected: the await throws out of enhanceResults, the
\* calls of the batch that are still outstanding go on.
Enhance_rejects ==
  /\ enhanceRun.pc = "batch"
  /\ PromiseAllRejected
  /\ enhanceRun' = [enhanceRun EXCEPT !.pc = "rejected"]
  /\ UNCHANGED othersOfBatch

InitBatchVars ==
  enhanceRun = [pc |-> "idle", i |-> 1, gen |-> <<>>, throwing |-> {}]

\* ==================================================================
\* The external calls of one indexWebsite run: the page batches of
\* part_001:35-55 around the suggestion batches of axeScanner.js:234-264
\* ==================================================================
\* A page's scan result here has one batch of violations, so all its
\* suggestion calls are started together (StartBatch).
ViolationCounts == {1, EnhanceBatchSize}

\* The pages of the batch the loop has reached (part_001:36-37)
InCountedBatch(p) ==
  /\ p \in DOMAIN callCount.pages
  /\ callCount.i <= p
  /\ p < callCount.i + BATCH_SIZE

\* Promise.all of the page batch has resolved (part_001:39-54).
CountedBatchSettled ==
  \A p \in DOMAIN callCount.pages :
    InCountedBatch(p) => callCount.pages[p].step = "failed"

\* indexWebsite up to the first batch: the crawl has returned n pages.
indexWebsite_counted ==
  /\ callCount.pc = "idle"
  /\ \E n \in 1..MaxCountedPages :
       callCount' = [pc |-> "batch", i |-> 1,
                     pages |-> [p \in 1..n |-> [step |-> "scan", out |-> 0]],
                     lingering |-> 0]
  /\ UNCHANGED othersOfCount

\* scanPage throws for a page of the batch: the catch logs it
\* (part_001:41-53).
Counted_scanFails(p) ==
  /\ callCount.pc = "batch"
  /\ InCountedBatch(p)
  /\ callCount.pages[p].step = "scan"
  /\ callCount' = [callCount EXCEPT !.pages[p].step = "failed"]
  /\ UNCHANGED othersOfCount

\* The page is scanned and enhanceResults maps its batch of n violations:
\* n generateFixSuggestions calls are started (axeScanner.js:243-260).
Counted_enhance(p, n) ==
  /\ callCount.pc = "batch"
  /\ InCountedBatch(p)
  /\ callCount.pages[p].step = "scan"
  /\ callCount' = [callCount EXCEPT !.pages[p] = [step |-> "enhance", out |-> n]]
  /\ UNCHANGED othersOfCount

\* The same when the first of the n violations has no nodes: its call throws
\* at once (part_002:253-258), Promise.all rejects, enhanceResults rejects
\* and the catch of the page logs it (part_001:50-52) while the n - 1 other
\* calls of the batch are still outstanding (Enhance_rejects).
Counted_enhanceRejects(p, n) ==
  /\ callCount.pc = "batch"
  /\ InCountedBatch(p)
  /\ callCount.pages[p].step = "scan"
  /\ callCount' = [callCount EXCEPT !.pages[p] = [step |-> "failed", out |-> 0],
                                    !.lingering = @ + (n - 1)]
  /\ UNCHANGED othersOfCount

\* A suggestion call of a page being enhanced returns.
Counted_callSettles(p) ==
  /\ p \in DOMAIN callCount.pages
  /\ callCount.pages[p].step = "enhance"
  /\ callCount.pages[p].out > 0
  /\ callCount' = [callCount EXCEPT !.pages[p].out = @ - 1]
  /\ UNCHANGED othersOfCount

\* A suggestion call left behind by a page that failed returns.
Counted_lingeringSettles ==
  /\ callCount.lingering > 0
  /\ callCount' = [callCount EXCEPT !.lingering = @ - 1]
  /\ UNCHANGED othersOfCount

\* The page is enhanced and its storePageResults rejects
\* (storePageResults_noConnection, IndexPage_websiteUpsertFails): no
\* embedding call is made, the catch logs the failure.
Counted_storeRejects(p) ==
  /\ callCount.pc = "batch"
  /\ InCountedBatch(p)
  /\ callCount.pages[p].step = "enhance"
  /\ callCount.pages[p].out = 0
  /\ callCount' = [callCount EXCEPT !.pages[p].step = "failed"]
  /\ UNCHANGED othersOfCount

\* The page is enhanced and its storePageResults never settles
\* (IndexPage_storeNeverSettles): insertViolation is never called, so no
\* embedding call is made (part_001:118-134).
Counted_storeNeverSettles(p) ==
  /\ callCount.pc = "batch"
  /\ InCountedBatch(p)
  /\ callCount.pages[p].step = "enhance"
  /\ callCount.pages[p].out = 0
  /\ callCount' = [callCount EXCEPT !.pages[p].step = "hung"]
  /\ UNCHANGED othersOfCount

\* The batch has settled and pages are left: the next batch is mapped
\* (part_001:36-39).
Counted_NextBatch ==
  /\ callCount.pc = "batch"
  /\ CountedBatchSettled
  /\ callCount.i + BATCH_SIZE <= Len(callCount.pages)
  /\ callCount' = [callCount EXCEPT !.i = @ + BATCH_SIZE]
  /\ UNCHANGED othersOfCount

\* The last batch has settled: the run goes on to updateWebsiteScore.
Counted_lastBatchSettled ==
  /\ callCount.pc = "batch"
  /\ CountedBatchSettled
  /\ callCount.i + BATCH_SIZE > Len(callCount.pages)
  /\ callCount' = [callCount EXCEPT !.pc = "over"]
  /\ UNCHANGED othersOfCount

InitCountVars ==
  callCount = [pc |-> "idle", i |-> 1, pages |-> <<>>, lingering |-> 0]

\* ==================================================================
\* Specifications
\* ==================================================================
Init ==
  InitCrawlVars /\ InitRiskVars /\ InitEnhanceVars /\ InitStoreVars /\ InitSuggestVars
  /\ InitIndexVars /\ InitCosineVars /\ InitSearchVars /\ InitBatchVars
  /\ InitCountVars
  /\ InitLinkVars
  /\ InitBrowserVars

NextCrawl ==
  \/ \E d \in 0..MaxDepthBound : crawl(d)
  \/ CrawlSkip
  \/ \E hrefs \in LinkLists : CrawlFetch(hrefs)
  \/ CrawlFetchFails
  \/ CrawlReturn

SpecCrawl == Init /\ [][NextCrawl]_vars

\* The loop of crawl is straight-line code between awaits whose promises all
\* settle (navigation has a 30 s timeout): once called it keeps stepping.
FairSpecCrawl == SpecCrawl /\ WF_vars(CrawlLoop)

NextRisk == \E s \in Severities : AddViolation(s)

SpecRisk == Init /\ [][NextRisk]_vars

NextEnhance ==
  \/ \E vs \in SeqsUpTo(RawViolations, MaxScanLen) : scanPage(vs)
  \/ \E sugg \in [DOMAIN scanResults -> {"suggestion", "error"}] : enhanceResults(sugg)

SpecEnhance == Init /\ [][NextEnhance]_vars

Next ==
  \/ \E url \in StoreUrls, viols \in ViolationLists :
       \E fault \in PageFaults(viols) : storePageResults(url, viols, fault)
  \/ \E url \in StoreUrls, viols \in ViolationLists : storePageResults_noConnection(url, viols)
  \/ StorePage_Rollback
  \/ StorePage_PageUpsert
  \/ \E url \in StoreUrls, viols \in ViolationLists : storeScanResults(url, viols)
  \/ \E url \in StoreUrls, viols \in ViolationLists : storeScanResults_busy(url, viols)
  \/ StoreScan_PageUpsert
  \/ StoreScan_Delete
  \/ \E embedding \in {"vector", "[]"} : StoreScan_Insert(embedding)
  \/ \E embedding \in {"vector", "[]"} : StoreScan_LastInsert(embedding)
  \/ \E embedding \in {"vector", "[]"} : StoreScan_CommitOvertakes(embedding)
  \/ StoreScan_LateInsert
  \/ StoreScan_Commit
  \/ Search

Spec == Init /\ [][Next]_vars

NextSuggest ==
  \/ \E v \in SuggestViolations : generateFixSuggestions_throws(v)
  \/ \E v \in SuggestViolations : generateFixSuggestions_cached(v)
  \/ \E v \in SuggestViolations : generateFixSuggestions_request(v)
  \/ \E v \in SuggestViolations, text \in ProviderTexts : Provider_answers(v, text)
  \/ \E v \in SuggestViolations : Provider_fails(v)

SpecSuggest == Init /\ [][NextSuggest]_vars

NextIndex ==
  \/ \E n \in 0..MaxPages, wired \in BOOLEAN, row \in PriorRows :
       indexWebsite(n, wired, row)
  \/ \E p \in 1..MaxPages : IndexPage_scanFails(p)
  \/ \E p \in 1..MaxPages : IndexPage_storeRejects(p)
  \/ \E p \in 1..MaxPages : IndexPage_websiteUpsertFails(p)
  \/ \E p \in 1..MaxPages, risk \in PageRisks : IndexPage_storeNeverSettles(p, risk)
  \/ \E p \in 1..MaxPages, risk \in PageRisks : IndexPage_pageUpsertFails(p, risk)
  \/ Index_Rollback
  \/ Index_NextBatch
  \/ updateWebsiteScore
  \/ updateWebsiteScore_noConnection

SpecIndex == Init /\ [][NextIndex]_vars

\* Every step of a run is taken by the event loop when the promise or the
\* statement it waits for is done: a step that can be taken is taken.
FairSpecIndex == SpecIndex /\ WF_vars(NextIndex)

NextCosine ==
  \/ CallCosineSimilarity
  \/ CompressAndCompare
  \/ CallCompressEmbedding

SpecCosine == Init /\ [][NextCosine]_vars

NextSearch ==
  \/ LoadRow
  \/ semanticSearch

SpecSearch == Init /\ [][NextSearch]_vars

NextBatch ==
  \/ enhanceResults_start
  \/ \E v \in 1..MaxBatchViolations : Suggestion_settles(v)
  \/ Enhance_NextBatch
  \/ Enhance_returns
  \/ Enhance_rejects

SpecBatch == Init /\ [][NextBatch]_vars

NextCount ==
  \/ indexWebsite_counted
  \/ \E p \in 1..MaxCountedPages : Counted_scanFails(p)
  \/ \E p \in 1..MaxCountedPages, n \in ViolationCounts : Counted_enhance(p, n)
  \/ \E p \in 1..MaxCountedPages, n \in ViolationCounts : Counted_enhanceRejects(p, n)
  \/ \E p \in 1..MaxCountedPages : Counted_callSettles(p)
  \/ Counted_lingeringSettles
  \/ \E p \in 1..MaxCountedPages : Counted_storeRejects(p)
  \/ \E p \in 1..MaxCountedPages : Counted_storeNeverSettles(p)
  \/ Counted_NextBatch
  \/ Counted_lastBatchSettled

SpecCount == Init /\ [][NextCount]_vars

NextLinks == forEachLink

NextBrowser ==
  \/ \E c \in 1..MaxScanCalls : getBrowserInstance_reuse(c)
  \/ \E c \in 1..MaxScanCalls : getBrowserInstance_launch(c)
  \/ \E c \in 1..MaxScanCalls : Launch_resolves(c)
  \/ \E c \in 1..MaxScanCalls : Launch_rejects(c)
  \/ \E b \in 1..MaxScanCalls : Browser_disconnects(b)
  \/ closeBrowser

SpecBrowser == Init /\ [][NextBrowser]_vars

SpecLinks == Init /\ [][NextLinks]_vars

\* ==================================================================
\* Properties of the crawler
\* ==================================================================
NoRepeats(s) == \A i, j \in DOMAIN s : s[i] = s[j] => i = j

\* C5: within one crawl run no URL is handed to the fetch twice and the
\* returned page list holds no URL twice, whatever links the pages return
\* (several paths to one URL, a page linking to itself).
C5_NoUrlTwice == (\A u \in SiteUrls : fetchCount[u] <= 1) /\ NoRepeats(pages)

\* C5's case: a finished crawl of at least two pages in which one URL was
\* pushed twice and some page linked back to the start URL.
C5_Witness ==
  /\ crawlPc = "done"
  /\ Len(pages) >= 2
  /\ \E e1, e2 \in pushed : e1.url = e2.url /\ e1.depth # e2.depth
  /\ \E e \in pushed : e.url = StartUrl

\* C6 as stated: a crawl with maxDepth = 0 adds no link of the start page to
\* the queue.
C6_EnqueuesNothing == (crawlPc # "idle" /\ maxDepth = 0) => pushed = {}

\* C6 as amended: a crawl with maxDepth = 0 fetches and records only the start
\* URL, once; the internal links of the start page are pushed, at depth 1,
\* and every one of them is skipped when it is dequeued.
C6_VisitsOnlyStart ==
  (crawlPc # "idle" /\ maxDepth = 0) =>
    /\ \A u \in SiteUrls : fetchCount[u] <= (IF u = StartUrl THEN 1 ELSE 0)
    /\ \A i \in DOMAIN pages : pages[i] = StartUrl
    /\ \A e \in pushed : e.depth = 1
    /\ crawlPc = "done" => fetchCount[StartUrl] = 1

\* C6's case: a finished maxDepth = 0 crawl whose start page had internal
\* links.
C6_Witness ==
  /\ crawlPc = "done"
  /\ maxDepth = 0
  /\ pages = <<StartUrl>>
  /\ pushed # {}

\* C7: once called, crawl returns: the queue runs empty and the page list is
\* handed back, for every link graph over the universe (cycles included) and
\* with fetches that fail.
C7_Terminates == (crawlPc = "loop") ~> (crawlPc = "done")

\* C7's case: a crawl that returned although a fetch failed and a page linked
\* back to the start URL (a cycle).
C7_Witness ==
  /\ crawlPc = "done"
  /\ failed # {}
  /\ pages # <<>>
  /\ \E e \in pushed : e.url = StartUrl

\* ==================================================================
\* Properties of the risk score and of the severity mapping
\* ==================================================================
\* The weights and the formula as the specification words them.
ClaimedWeight(severity) ==
  CASE severity = "critical" -> 10
    [] severity = "high" -> 6
    [] severity = "medium" -> 3
    [] severity = "low" -> 1
    [] severity = "unknown" -> 1

CountOf(vs, severity) == Cardinality({i \in DOMAIN vs : vs[i] = severity})

ClaimedRaw(vs) ==
  10 * CountOf(vs, "critical") + 6 * CountOf(vs, "high")
    + 3 * CountOf(vs, "medium") + CountOf(vs, "low") + CountOf(vs, "unknown")

\* round(num / den): the integer nearest to the rational num / den, halves up.
NearestInteger(num, den) ==
  CHOOSE r \in 0..(num \div den + 1) :
    2 * den * r - den <= 2 * num /\ 2 * num < 2 * den * r + den

ClaimedScore(vs) ==
  IF vs = <<>> THEN 0
  ELSE Min(NearestInteger(100 * ClaimedRaw(vs), 10 * Len(vs)), 100)

\* C8 as stated: calculateRiskScore returns 0 for the empty list and otherwise
\* min(round(sum of weights / (count x 10) x 100), 100).
C8_ScoreIsFormula == riskScore = ClaimedScore(violations)

\* C9 as stated: appending any violation never lowers the risk score.
C9_Monotonic ==
  \A x \in Severities : calculateRiskScore(Append(violations, x)) >= riskScore

\* C9 as amended: appending a violation never lowers the risk score when the
\* list was empty or the new violation weighs at least the mean weight of the
\* list.
C9_MonotonicAtOrAboveMean ==
  \A x \in Severities :
    (violations = <<>> \/ ClaimedWeight(x) * Len(violations) >= ClaimedRaw(violations))
      => calculateRiskScore(Append(violations, x)) >= riskScore

\* C9's case: a scored list of mixed severities to which a heavier violation
\* is appended, and the score rises.
C9_Witness ==
  /\ violations = <<"medium", "low">>
  /\ riskScore = 20
  /\ calculateRiskScore(Append(violations, "high")) > riskScore

\* The table of the specification.
ClaimedSeverity(impact) ==
  CASE impact \in {"serious", "critical"} -> "critical"
    [] impact = "moderate" -> "high"
    [] impact = "minor" -> "medium"
    [] impact = "cosmetic" -> "low"
    [] OTHER -> "unknown"

\* C10: enhanceResults gives every violation the severity of the fixed table:
\* serious and critical -> critical, moderate -> high, minor -> medium,
\* cosmetic -> low, anything else or nothing -> unknown.
C10_SeverityTable ==
  enhanced.status = "ok" =>
    /\ Len(enhanced.violations) = Len(scanResults)
    /\ \A i \in DOMAIN scanResults :
         /\ enhanced.violations[i].impact = scanResults[i].impact
         /\ enhanced.violations[i].severity = ClaimedSeverity(scanResults[i].impact)
         /\ scanResults[i].impact = "serious" => enhanced.violations[i].severity = "critical"

\* C10's case: an enhanced result holding a "serious" violation and one
\* without a known impact.
C10_Witness ==
  /\ enhanced.status = "ok"
  /\ \E i \in DOMAIN scanResults : scanResults[i].impact = "serious"
  /\ \E i \in DOMAIN scanResults : scanResults[i].impact \in {"other", "none"}

\* C11: enhanceResults returns a result holding every violation whatever the
\* violations are, one with an empty nodes list included: generating a
\* suggestion never throws.
C11_EnhanceAlwaysReturns ==
  enhanced.status # "none" =>
    /\ enhanced.status = "ok"
    /\ Len(enhanced.violations) = Len(scanResults)

\* C12: a generateFixSuggestions call finds a cache entry exactly when a
\* suggestion has been generated before for the same violation id,
\* whitespace-normalized html of the first node, impact and helpUrl; it then
\* returns the stored suggestion with cached = true and does not call the
\* provider.
C12_CacheKeyedByFourValues ==
  lastCall.outcome \in {"cached", "requested"} =>
    /\ (lastCall.outcome = "cached") <=> lastCall.expected
    /\ lastCall.outcome = "cached" =>
         /\ lastCall.value.cached = TRUE
         /\ lastCall.value.suggestion = lastCall.expectedText

\* C12's case: a call served from the cache for a violation whose html
\* differs in white space from its normalized form.
C12_Witness ==
  /\ lastCall.outcome = "cached"
  /\ lastCall.v.html # WordsOf(lastCall.v.html, 1)
  /\ lastCall.value.suggestion \in ProviderTexts

\* ------------------------------------------------------------------
\* The store
\* ------------------------------------------------------------------
\* C1: when a page url that was stored before is stored again, by
\* storePageResults or storeScanResults, with violation list S' and no
\* statement fails, the violations attached to the page's row afterwards are
\* exactly S'.
C1_RestoreReplacesSet ==
  (call.pc \in {"done", "dead"} /\ call.fault = "none" /\ call.existed)
    => AttachedTo(View, call.url) = call.viols

\* The part of C1 that the code does deliver: a storeScanResults call that
\* has run all its statements leaves exactly its list attached to the page.
StoreScanReplacesSet ==
  (call.op = "storeScanResults" /\ call.pc = "done")
    => AttachedTo(file, call.url) = call.viols

C3_ReaderSeesWholeSet ==
  observed.seen => observed.rows \in {call.beforeSeen, call.viols}

\* Pages whose website_id is the id of the Website row of the domain.
OwnedPages(db, dom) ==
  {p \in db.pages : \E w \in db.websites : w.domain = dom /\ w.id = p.website_id}

\* C4: once k distinct urls of a domain have been stored successfully, the
\* Website row of the domain owns exactly k Pages.
C4_WebsiteOwnsEveryStoredPage ==
  call.pc \in Finished
    => \A dom \in {hostOf(url) : url \in StoreUrls} :
         (\E w \in file.websites : w.domain = dom)
           => Cardinality(OwnedPages(file, dom))
                = Cardinality({url \in storedOk : hostOf(url) = dom})

\* ------------------------------------------------------------------
\* indexWebsite
\* ------------------------------------------------------------------
\* The run can go no further: it has returned or rejected, or every page of
\* its batch has got as far as it ever will and Promise.all stays pending.
IndexRunOver ==
  \/ indexRun.pc \in {"returned", "rejected"}
  \/ /\ indexRun.pc = "batch"
     /\ \A p \in DOMAIN indexRun.pages :
          InBatch(p) => indexRun.pages[p].state # "waiting"
     /\ \E p \in DOMAIN indexRun.pages : indexRun.pages[p].state = "hung"

\* The pages that were scanned and enhanced and whose store met no failing
\* statement, and the sum of their risk scores.
GoodPages ==
  {p \in DOMAIN indexRun.pages :
     indexRun.pages[p].state = "hung" /\ indexRun.pages[p].error = ""}

RECURSIVE SumRisk(_)
SumRisk(ps) ==
  IF ps = {} THEN 0
  ELSE LET p == CHOOSE q \in ps : TRUE
       IN indexRun.pages[p].risk + SumRisk(ps \ {p})

\* 100 - min(mean risk of the good pages, 100), and 100 without good pages
ClaimedCompliance ==
  LET n == Cardinality(GoodPages)
  IN IF n = 0 THEN [num |-> 100, den |-> 1]
     ELSE [num |-> 100 * n - Min(SumRisk(GoodPages), 100 * n), den |-> n]

\* C13: indexWebsite returns complianceScore = 100 - min(mean riskScore of
\* the pages scanned, enhanced and persisted without failure, 100), and 100
\* when there is no such page.
C13_ReturnsAggregate ==
  IndexRunOver =>
    /\ indexRun.pc = "returned"
    /\ indexRun.result.num * ClaimedCompliance.den
         = ClaimedCompliance.num * indexRun.result.den

\* C14: when a page of the run fails, every other page is still processed,
\* indexWebsite still returns, and the failed page is not counted.
C14_PageFailureIsContained ==
  (IndexRunOver /\ \E p \in DOMAIN indexRun.pages : indexRun.pages[p].state = "failed")
    => /\ indexRun.pc = "returned"
       /\ \A p \in DOMAIN indexRun.pages : indexRun.pages[p].state # "waiting"
       /\ indexRun.result.pages = Cardinality(GoodPages)

RejectedStoreFailsThePage ==
  \A p \in DOMAIN indexRun.pages :
    (indexRun.pages[p].error = "store" /\ indexRun.pages[p].state # "hung")
      => /\ indexRun.pages[p].state = "failed"
         /\ indexRun.indexedPages <= Len(indexRun.pages) - 1

AllZero(vec) == \A i \in DOMAIN vec : vec[i] = 0

\* C19: cosineSimilarity returns 0 when either vector has magnitude 0, when
\* either argument is missing and when the lengths differ, and it never
\* divides by zero.
C19_ZeroWithoutDivision ==
  cosCall.via # "none" =>
    /\ ( \/ cosCall.a.kind = "missing"
         \/ cosCall.b.kind = "missing"
         \/ Len(cosCall.a.vec) # Len(cosCall.b.vec)
         \/ AllZero(cosCall.a.vec)
         \/ AllZero(cosCall.b.vec) ) => ~cosCall.result.divided
    /\ cosCall.result.divided => cosCall.result.magA * cosCall.result.magB # 0

\* C19's case: a non-zero vector compared with the zero vector of its length.
C19_Witness ==
  /\ cosCall.via = "direct"
  /\ cosCall.a.kind = "array" /\ ~AllZero(cosCall.a.vec)
  /\ cosCall.b.kind = "array" /\ AllZero(cosCall.b.vec)
  /\ Len(cosCall.a.vec) = 2 /\ Len(cosCall.b.vec) = 2
  /\ ~cosCall.result.divided

\* The similarity of a round trip is within 1/127 of 1.0:
\* dot / sqrt(magA * magB) >= 126/127.  The decompressed vector is 3 times
\* the stored integers, which is divided out of dot and magB first.
RoundTripWithinTolerance ==
  LET dot == cosCall.result.dot \div 3
      product == cosCall.result.magA * (cosCall.result.magB \div 9)
      gap == product - dot * dot
  IN /\ cosCall.result.divided
     /\ dot > 0
     /\ gap <= product \div 60
     /\ 127 * 127 * gap <= (127 * 127 - 126 * 126) * product

\* C20: for every non-zero vector with components in [-1,1], the similarity
\* between the vector and its compressed and decompressed form is 1.0
\* within 1/127.
C20_RoundTripKeepsDirection ==
  (cosCall.via = "roundTrip" /\ ~AllZero(cosCall.a.vec))
    => RoundTripWithinTolerance

\* |v|^2 >= d/508, d the number of components: then the rounding error, at
\* most 1/254 per component, turns the vector by an angle whose cosine is
\* at least 126/127.
LongEnough(vec) == 508 * SumProducts(vec, vec, 1) >= Len(vec) * One * One

\* C20, amended: the same for the vectors whose squared norm is at least
\* d/508; shorter ones can lose their direction, down to the zero vector.
C20_LongVectorsKeepDirection ==
  (cosCall.via = "roundTrip" /\ ~AllZero(cosCall.a.vec) /\ LongEnough(cosCall.a.vec))
    => RoundTripWithinTolerance

\* C20's case: a long enough vector with a component that is not a whole
\* number of quantization steps.
C20_Witness ==
  /\ cosCall.via = "roundTrip"
  /\ LongEnough(cosCall.a.vec)
  /\ \E i \in DOMAIN cosCall.a.vec :
       cosCall.a.vec[i] # 0 /\ cosCall.a.vec[i] % 3 # 0
  /\ Len(cosCall.a.vec) = 2

\* ------------------------------------------------------------------
\* semanticSearch
\* ------------------------------------------------------------------
\* The call returned after both the query embedding and the read succeeded.
SearchSucceeded ==
  search.pc = "returned" /\ search.queryEmbedding # <<>> /\ search.dbOk

\* The similarity of loaded row i to the query.
SimilarityOfRow(i) ==
  cosineSimilarity(Array(search.queryEmbedding), Array(embeddedRows[i]))

\* The loaded rows of the query's dimensionality with similarity above 0.3.
Qualifying ==
  {i \in DOMAIN embeddedRows :
     /\ Len(embeddedRows[i]) = Len(search.queryEmbedding)
     /\ AboveThreshold(SimilarityOfRow(i))}

ResultRows == {search.results[j].row : j \in DOMAIN search.results}

\* C16: semanticSearch(query, limit) returns the first `limit` elements of
\* the qualifying rows (same dimensionality as the query, similarity above
\* 0.3) sorted by similarity descending: at most `limit` entries, in
\* non-increasing similarity order, each a qualifying row listed once with its
\* similarity, and a qualifying row is left out only when `limit` rows that
\* rank no lower are returned.
C16_FirstLimitOfRanked ==
  SearchSucceeded =>
    LET results == search.results IN
      /\ Len(results) <= search.limit
      /\ \A j \in DOMAIN results, k \in DOMAIN results :
           /\ j < k => ~Exceeds(results[k].similarity, results[j].similarity)
           /\ j # k => results[j].row # results[k].row
      /\ \A j \in DOMAIN results :
           /\ results[j].row \in Qualifying
           /\ results[j].similarity = SimilarityOfRow(results[j].row)
      /\ \A i \in Qualifying \ ResultRows :
           /\ Len(results) = search.limit
           /\ \A j \in DOMAIN results :
                ~Exceeds(SimilarityOfRow(i), results[j].similarity)

\* Three rows qualify, two are asked for, and the two returned were loaded
\* in the other order.
C16_Witness ==
  /\ SearchSucceeded
  /\ search.limit = 2
  /\ Cardinality(Qualifying) = 3
  /\ Len(search.results) = 2
  /\ Exceeds(search.results[1].similarity, search.results[2].similarity)
  /\ search.results[1].row > search.results[2].row

\* A search over a row of another dimension, a zero vector and a row at
\* similarity 0.24 returns the one row above the threshold.
C16_SkipsWitness ==
  /\ SearchSucceeded
  /\ search.queryEmbedding = <<1, 0>>
  /\ embeddedRows = <<(<<1>>), (<<1, 4>>), (<<4, 1>>)>>
  /\ ResultRows = {3}

\* C18: semanticSearch never propagates an error: when the query embedding
\* could not be generated (generateEmbedding returned the empty array) or the
\* database read failed, the call returns the empty list.
C18_FailureReturnsEmptyList ==
  /\ search.pc \in {"idle", "returned"}
  /\ (search.pc = "returned" /\ (search.queryEmbedding = <<>> \/ ~search.dbOk))
       => search.results = <<>>

\* The read failed for a query that rows of the table match.
C18_Witness ==
  /\ search.pc = "returned"
  /\ ~search.dbOk
  /\ search.queryEmbedding # <<>>
  /\ search.limit > 0
  /\ Qualifying # {}
  /\ search.results = <<>>

\* The query embedding could not be generated.
C18_EmbeddingWitness ==
  /\ search.pc = "returned"
  /\ search.dbOk
  /\ search.queryEmbedding = <<>>
  /\ embeddedRows # <<>>
  /\ search.results = <<>>

\* ------------------------------------------------------------------
\* violations stored without an embedding
\* ------------------------------------------------------------------
\* JSON.parse(v.embedding): the empty array for the '[]' that storeScanResults
\* writes after a failed generateEmbedding (part_000:297, 309), else a vector.
ParseEmbedding(embedding) == IF embedding = "[]" THEN <<>> ELSE <<4, 1>>

\* FROM violations v JOIN pages p ... JOIN websites w ..., in id order
JoinedRows(db) ==
  RowsById({v \in db.violations :
              \E p \in db.pages :
                p.id = v.page_id /\ \E w \in db.websites : w.id = p.website_id})

\* The ids searchViolations({violationId}) returns.
SearchViolationsIds(db, violationId) ==
  LET joined == JoinedRows(db)
  IN {joined[i].id : i \in {j \in DOMAIN joined : joined[j].violation_id = violationId}}

\* The ids semanticSearch returns for a query embedding, whatever the limit.
SemanticSearchIds(db, queryEmbedding) ==
  LET joined == JoinedRows(db)
      found == FilterRows(MapRows(queryEmbedding,
                 [i \in DOMAIN joined |-> ParseEmbedding(joined[i].embedding)]))
  IN {joined[found[j].row].id : j \in DOMAIN found}

\* The violation rows of the stored pages that were written after their
\* embedding could not be generated.
WithoutEmbedding(db) ==
  {v \in db.violations :
     v.embedding = "[]" /\ \E p \in db.pages : p.id = v.page_id}

\* C17: a violation whose embedding could not be generated while its page
\* was stored is persisted all the same (a resolved storeScanResults call
\* leaves one row per violation of the scan), is returned by searchViolations
\* for its violation id, and is returned by semanticSearch for no query.
C17_StoredWithoutEmbeddingIsSearchable ==
  call.pc \in Finished =>
    /\ (call.op = "storeScanResults" /\ call.pc = "done")
         => Cardinality({v \in file.violations : v.page_id = call.pageId})
              = Len(call.viols)
    /\ \A v \in WithoutEmbedding(file) :
         /\ v.id \in SearchViolationsIds(file, v.violation_id)
         /\ \A queryEmbedding \in QueryEmbeddings \ {<<>>} :
              v.id \notin SemanticSearchIds(file, queryEmbedding)

\* When a storeScanResults call has just finished, the rows it wrote without
\* an embedding are returned by searchViolations and by no semanticSearch.
SearchableWhenJustStored ==
  (call.op = "storeScanResults" /\ call.pc = "done") =>
    /\ Cardinality({v \in file.violations : v.page_id = call.pageId})
         = Len(call.viols)
    /\ \A v \in {r \in WithoutEmbedding(file) : r.page_id = call.pageId} :
         /\ v.id \in SearchViolationsIds(file, v.violation_id)
         /\ \A queryEmbedding \in QueryEmbeddings \ {<<>>} :
              v.id \notin SemanticSearchIds(file, queryEmbedding)

\* A call has just stored a violation without an embedding next to one
\* with an embedding that a semantic search returns.
JustStoredWithoutEmbedding ==
  /\ call.op = "storeScanResults"
  /\ call.pc = "done"
  /\ \E v \in WithoutEmbedding(file) : v.page_id = call.pageId
  /\ \E v \in file.violations :
       v.page_id = call.pageId /\ v.id \in SemanticSearchIds(file, <<1, 0>>)

\* ------------------------------------------------------------------
\* the stored compliance score
\* ------------------------------------------------------------------
RECURSIVE SumOfRisks(_)
SumOfRisks(pageRows) ==
  IF pageRows = {} THEN 0
  ELSE LET p == CHOOSE q \in pageRows : TRUE
       IN p.risk + SumOfRisks(pageRows \ {p})

\* compliance_score of every Website row of db is 100 - min(mean risk_score
\* of the Pages whose website_id is its id, 100) (100 when it owns none) and
\* lies in 0..100.
ScoresAreMeansOfOwned(db) ==
  \A w \in db.websites :
    LET owned == OwnedPages(db, w.domain)
        n == IF owned = {} THEN 1 ELSE Cardinality(owned)
    IN /\ w.score * n = 100 * n - Min(SumOfRisks(owned), 100 * n)
       /\ w.score \in 0..100

\* The committed file after completed calls of storeScanResults (and of
\* storePageResults, which commits nothing).
StoredScoreIsMeanOfOwned ==
  call.pc \in {"idle", "done", "rejected"} => ScoresAreMeansOfOwned(file)

RECURSIVE SumSeq(_)
SumSeq(q) == IF q = <<>> THEN 0 ELSE Head(q) + SumSeq(Tail(q))

WebsiteFailureIsRolledBack ==
  (/\ call.op = "storePageResults"
   /\ call.fault = "website"
   /\ call.pc = "rejected")
    => /\ call.settled = "rejected"
       /\ ~conn.tx
       /\ AttachedTo(View, call.url) = call.before

\* ------------------------------------------------------------------
\* batches of enhanceResults
\* ------------------------------------------------------------------
\* The batch a violation belongs to, counted from 0.
EnhanceBatchOf(v) == (v - 1) \div 5

Outstanding == {v \in DOMAIN enhanceRun.gen : enhanceRun.gen[v] = "outstanding"}

\* C24: within one enhanceResults call at most 5 suggestion generations are
\* outstanding at any moment, and a generation of a later batch has started
\* only if every generation of every earlier batch has completed.
C24_BatchesOfFiveInSequence ==
  /\ Cardinality(Outstanding) <= 5
  /\ \A v \in DOMAIN enhanceRun.gen, u \in DOMAIN enhanceRun.gen :
       (enhanceRun.gen[v] # "waiting" /\ EnhanceBatchOf(u) < EnhanceBatchOf(v))
         => enhanceRun.gen[u] = "done"

\* Five generations are outstanding at once, and later the second batch is
\* under way.
C24_Witness ==
  /\ Len(enhanceRun.gen) = 7
  /\ enhanceRun.i = 6
  /\ Cardinality(Outstanding) = 2

C24_FullBatchWitness ==
  /\ Len(enhanceRun.gen) = 7
  /\ enhanceRun.i = 1
  /\ Cardinality(Outstanding) = 5

\* ------------------------------------------------------------------
\* batches of indexWebsite
\* ------------------------------------------------------------------
\* The batch a page belongs to, counted from 0.
PageBatchOf(p) == (p - 1) \div 5

\* The pages whose async function has been called: those up to the end of
\* the slice the loop has reached.
StartedPages ==
  {p \in DOMAIN indexRun.pages : p < indexRun.i + BATCH_SIZE}

\* The started pages that are still in their scan / enhance / persist step.
PagesInStep ==
  {p \in StartedPages : indexRun.pages[p].state \in {"waiting", "hung"}}

\* C25: within one indexWebsite run at most 5 pages are in their
\* scan / enhance / persist step at any moment, and a page of a later batch
\* has started only if every page of every earlier batch has finished.
C25_PageBatchesOfFiveInSequence ==
  /\ Cardinality(PagesInStep) <= 5
  /\ \A p \in StartedPages, q \in DOMAIN indexRun.pages :
       PageBatchOf(q) < PageBatchOf(p) => indexRun.pages[q].state = "failed"

\* The sixth page is in its step after the five of the first batch failed.
C25_Witness ==
  /\ Len(indexRun.pages) = 6
  /\ indexRun.pc = "batch"
  /\ indexRun.i = 6
  /\ PagesInStep = {6}

\* Five pages are in their step at once while a sixth waits for its batch.
C25_FullBatchWitness ==
  /\ Len(indexRun.pages) = 6
  /\ indexRun.i = 1
  /\ Cardinality(PagesInStep) = 5
  /\ \E p \in PagesInStep : indexRun.pages[p].state = "hung"

\* ------------------------------------------------------------------
\* outstanding external calls
\* ------------------------------------------------------------------
RECURSIVE SumOut(_, _)
SumOut(pageStates, p) ==
  IF p > Len(pageStates) THEN 0 ELSE pageStates[p].out + SumOut(pageStates, p + 1)

\* The suggestion and embedding calls of the run that have not returned.
OutstandingCalls == callCount.lingering + SumOut(callCount.pages, 1)

\* C26: at every moment of an indexWebsite run at most 25 external calls are
\* outstanding, and at most 5 while a single page is scanned and enhanced.
C26_LimitsCompose ==
  /\ OutstandingCalls <= 25
  /\ Len(callCount.pages) = 1 => OutstandingCalls <= 5

\* While no enhanceResults call has rejected, the limits hold.
LimitsComposeWithoutRejection ==
  callCount.lingering = 0 => C26_LimitsCompose

\* 25 calls are outstanding: five pages with five calls each.
FullyLoaded ==
  callCount.lingering = 0 /\ OutstandingCalls = 25

\* ------------------------------------------------------------------
\* one writer at a time
\* ------------------------------------------------------------------
\* The pages whose storePageResults has issued BEGIN TRANSACTION and its
\* upserts on the shared connection and has issued neither COMMIT nor
\* ROLLBACK.
PagesInTransaction ==
  {p \in DOMAIN indexRun.pages : indexRun.pages[p].state = "hung"}

IsHttpLinkOfHost(link) == UrlParses(link) /\ IsHttp(link) /\ hostname(link) = domain

\* A link that parses and whose hostname is the start hostname.
IsLinkOfHost(link) == UrlParses(link) /\ hostname(link) = domain

\* The entries for a list of links found on a page of the given depth.
EntriesFor(chosen, depth) ==
  [i \in 1..Len(chosen) |-> [url |-> chosen[i], depth |-> depth + 1]]

\* Every page of the result has the start hostname and was dequeued at a
\* depth <= maxDepth; every entry pushed has the start hostname and a depth
\* of 1 at least.
ResultWithinHostAndDepth ==
  /\ \A i \in DOMAIN crawled :
       hostname(crawled[i].url) = domain /\ crawled[i].depth <= maxDepth
  /\ \A i \in DOMAIN pages : crawled[i].url = pages[i]
  /\ \A e \in pushed : IsLinkOfHost(e.url) /\ e.depth >= 1

\* C28: what links.forEach pushes for a page is exactly the absolute http(s)
\* links of the start host among the page's links, in order, at the page's
\* depth plus one (a malformed link is dropped and the links after it are
\* still handled); every page of the result has the start hostname and was
\* dequeued at a depth <= maxDepth.
C28_EnqueuesHttpLinksOfHost ==
  /\ linkCall.called =>
       linkCall.found
         = EntriesFor(SelectSeq(linkCall.hrefs, IsHttpLinkOfHost), linkCall.depth)
  /\ ResultWithinHostAndDepth

\* What holds of links.forEach: it pushes the links that parse and have the
\* start hostname, whatever their scheme.
EnqueuesLinksOfHost ==
  linkCall.called =>
    linkCall.found = EntriesFor(SelectSeq(linkCall.hrefs, IsLinkOfHost), linkCall.depth)

\* A malformed link was followed by a link of the start host, which was pushed.
MalformedThenPushed ==
  /\ linkCall.called
  /\ linkCall.hrefs = <<MalformedUrl, "http://a/p">>
  /\ linkCall.found = <<[url |-> "http://a/p", depth |-> linkCall.depth + 1]>>

\* ------------------------------------------------------------------
\* a fetch that fails
\* ------------------------------------------------------------------
\* C29: a URL whose fetch failed is not in the page list and was handed to
\* the fetch once, however often it is linked again; the step in which it
\* fails takes only that entry off the queue and pushes nothing; and the
\* crawl goes on until the queue is empty.
C29_FailedFetchIsSkipped ==
  /\ [](\A u \in failed :
          /\ u \notin Range(pages)
          /\ fetchCount[u] = 1
          /\ crawlPc = "done" => queue = <<>>)
  /\ [][failed' # failed =>
          queue' = Tail(queue) /\ pushed' = pushed /\ pages' = pages]_vars
  /\ (crawlPc = "loop" /\ failed # {}) ~> (crawlPc = "done" /\ queue = <<>>)

\* C29's case: a finished crawl in which the fetch of a linked page failed,
\* that page was linked again by a page fetched after it, and the other
\* entries of the queue were fetched.
C29_Witness ==
  /\ crawlPc = "done"
  /\ \E u \in failed :
       /\ u # StartUrl
       /\ \E e1, e2 \in pushed : e1.url = u /\ e2.url = u /\ e1.depth < e2.depth
  /\ Len(pages) = 2

\* ------------------------------------------------------------------
\* breadth-first order
\* ------------------------------------------------------------------
NonDecreasing(depths) ==
  \A i, j \in DOMAIN depths : i < j => depths[i] <= depths[j]

DepthsOf(entries) == [i \in DOMAIN entries |-> entries[i].depth]

\* C30: the queue is seeded with (startUrl, 0) and is first-in first-out:
\* every iteration takes the head and what it pushes goes behind what was
\* queued; the entries are dequeued in non-decreasing depth, and the pages
\* of the result are in non-decreasing order of the depth they were fetched
\* at.
C30_BreadthFirstOrder ==
  /\ [](NonDecreasing(DepthsOf(queue)) /\ NonDecreasing(DepthsOf(crawled)))
  /\ [][(crawlPc = "idle" /\ crawlPc' = "loop") =>
          queue' = <<[url |-> StartUrl, depth |-> 0]>>]_vars
  /\ [][(crawlPc = "loop" /\ queue # <<>>) =>
          /\ Len(queue') >= Len(queue) - 1
          /\ SubSeq(queue', 1, Len(queue) - 1) = Tail(queue)
          /\ queue' # <<>> => Head(queue').depth >= Head(queue).depth]_vars

\* C30's case: a finished crawl of three pages, one at depth 0 and two at
\* depth 1, in which the first page of depth 1 pushed entries of depth 2
\* while the second was still queued.
C30_Witness ==
  /\ crawlPc = "done"
  /\ DepthsOf(crawled) = <<0, 1, 1>>
  /\ \E e \in pushed : e.depth = 2 /\ e.url = crawled[3].url

\* ------------------------------------------------------------------
\* compressEmbedding
\* ------------------------------------------------------------------
\* n is an integer nearest to k / 381 x 127.
NearestTo127Times(n, k) ==
  LET diff == 2 * 127 * k - 2 * One * n
  IN -One <= diff /\ diff <= One

\* C31: compressEmbedding maps an embedding with components in [-1, 1] to
\* a sequence of the same length whose i-th element is round(v[i] x 127) and
\* lies in -127..127: no component wraps around.
C31_QuantizedWithoutWrap ==
  cosCall.via = "compress" =>
    /\ cosCall.b.kind = "string"
    /\ Len(cosCall.b.vec) = Len(cosCall.a.vec)
    /\ \A i \in DOMAIN cosCall.a.vec :
         /\ NearestTo127Times(cosCall.b.vec[i], cosCall.a.vec[i])
         /\ cosCall.b.vec[i] \in -127..127

\* C31's case: an embedding with the components -1.0 and 1.0 is compressed
\* to -127 and 127.
C31_Witness ==
  /\ cosCall.via = "compress"
  /\ cosCall.a.vec = <<-One, One>>
  /\ cosCall.b.vec = <<-127, 127>>

RunEndsWithoutConnection ==
  (indexRun.pc = "batch" /\ ~indexDb.wired) ~> (indexRun.pc = "rejected")

\* ------------------------------------------------------------------
\* referential integrity
\* ------------------------------------------------------------------
\* Every violation row points at a page row and every page row at a website
\* row.
ReferencesResolve(db) ==
  /\ \A v \in db.violations : \E p \in db.pages : p.id = v.page_id
  /\ \A p \in db.pages : \E w \in db.websites : w.id = p.website_id

\* C33: after any sequence of completed page stores and re-stores every
\* Violation row's page_id is the id of a Page row and every Page row's
\* website_id is the id of a Website row.
C33_NoOrphans ==
  call.pc \in Finished => ReferencesResolve(file)

\* The first store into the empty database leaves no orphan.
FirstStoreLeavesNoOrphans ==
  (call.pc \in Finished /\ nCalls <= 1) => ReferencesResolve(file)

\* ------------------------------------------------------------------
\* one browser per type
\* ------------------------------------------------------------------
\* At most one browser is live and a live browser is the registry's.
OneRegisteredBrowser ==
  /\ Cardinality(browsers.live) <= 1
  /\ browsers.pc = "running" => \A b \in browsers.live : b = browserInstances

\* C34: at most one browser of a type is launched and live at any time,
\* every live browser is the one the registry holds, and the scanPage calls
\* that were given a live browser share it.
C34_OneSharedBrowser ==
  /\ OneRegisteredBrowser
  /\ \A c, d \in DOMAIN scanCalls :
       (/\ scanCalls[c].pc = "has" /\ scanCalls[c].browser \in browsers.live
        /\ scanCalls[d].pc = "has" /\ scanCalls[d].browser \in browsers.live)
         => scanCalls[c].browser = scanCalls[d].browser

\* When no call asks for a browser while another call waits for
\* browser.launch, one browser is live at most and the registry holds it.
OneBrowserWithoutOverlap ==
  ~browsers.overlapped => OneRegisteredBrowser

\* Two calls one after the other share the browser the first launched.
SecondCallReuses ==
  /\ ~browsers.overlapped
  /\ scanCalls[1].pc = "has" /\ scanCalls[2].pc = "has"
  /\ scanCalls[1].browser = scanCalls[2].browser
  /\ scanCalls[1].browser \in browsers.live

\* ------------------------------------------------------------------
\* errors and the suggestion cache
\* ------------------------------------------------------------------
\* The call that returned last returned the error payload.
ReturnedError ==
  returned.kind = "value" /\ "error" \in DOMAIN returned.value

\* No entry of the cache is an error payload.
ErrorPayloadNeverCached ==
  \A key \in DOMAIN RESPONSE_CACHE :
    /\ "error" \notin DOMAIN RESPONSE_CACHE[key]
    /\ RESPONSE_CACHE[key].suggestion \in ProviderTexts

\* The step in which a call returns the error payload leaves the cache as it
\* is.
FailureStoresNothing ==
  [][(pendingCalls' # pendingCalls /\ ReturnedError')
       => RESPONSE_CACHE' = RESPONSE_CACHE]_vars

\* C35: an error payload is never stored in the cache; once a call has
\* failed for a key the cache holds no entry for that key, and the next call
\* with that key calls the provider again.
C35_FailureLeavesNoEntry ==
  /\ [](ErrorPayloadNeverCached)
  /\ [](ReturnedError => ~MapHas(RESPONSE_CACHE, CacheKey(returned.v)))
  /\ [][(/\ ReturnedError
         /\ nSuggest' = nSuggest + 1
         /\ lastCall'.v.nodes > 0
         /\ CacheKey(lastCall'.v) = CacheKey(returned.v))
          => lastCall'.outcome = "requested"]_vars

\* A call failed and the next call with its key was sent to the provider.
FailedThenRequestedAgain ==
  /\ ReturnedError
  /\ nSuggest = 2
  /\ lastCall.outcome = "requested"
  /\ CacheKey(lastCall.v) = CacheKey(returned.v)
  /\ pendingCalls[lastCall.v] = 1

\* ------------------------------------------------------------------
\* one provider call per key
\* ------------------------------------------------------------------
\* The provider calls that are outstanding for the key of v.
OutstandingForKey(v) ==
  {w \in SuggestViolations :
     w.nodes > 0 /\ CacheKey(w) = CacheKey(v) /\ pendingCalls[w] > 0}

\* C36: for any cache key one provider call is made at most: while a call
\* for the key is outstanding no second one is, and none is outstanding once
\* the key is in the cache, so the provider answers once per key and every
\* caller gets that suggestion.
C36_OneProviderCallPerKey ==
  \A v \in SuggestViolations :
    pendingCalls[v] > 0 =>
      /\ pendingCalls[v] = 1
      /\ OutstandingForKey(v) = {v}
      /\ ~MapHas(RESPONSE_CACHE, CacheKey(v))

\* A call that begins when its key is in the cache is served from the cache
\* and the provider is not called.
ProviderNotCalledOnceCached ==
  [][(/\ nSuggest' = nSuggest + 1
      /\ lastCall'.v.nodes > 0
      /\ MapHas(RESPONSE_CACHE, CacheKey(lastCall'.v)))
       => (lastCall'.outcome = "cached" /\ pendingCalls' = pendingCalls)]_vars

====
